---------------------------- MODULE Spec2Model ----------------------------
(***************************************************************************)
(* Verification model of the warframe-damage-calculator core:              *)
(*   - DotInstance / DotState / DotConfig  (src/src/calculator/dot_dataclasses.py) *)
(*   - DOT_CONFIG_MAP                      (src/src/calculator/dot_config.py)      *)
(*   - DamageCalculator                    (src/src/calculator/damage_calculator.py) *)
(*   - Elements, InGameBuff, EnemyStat     (src/src/calculator/wf_dataclasses.py)  *)
(*   - CallBack and the mod callbacks      (src/src/data/mod_callbacks.py)         *)
(*                                                                         *)
(* Python floats are modelled as exact rationals [n |-> numerator,         *)
(* d |-> denominator > 0] in lowest terms, so two equal quantities are     *)
(* equal records.  A Python exception is modelled as a record that names   *)
(* it (ZeroDivisionError).                                                 *)
(***************************************************************************)
EXTENDS Integers, Sequences, FiniteSets, TLC

(***************************************************************************)
(* Exact arithmetic standing for Python float arithmetic.                  *)
(***************************************************************************)
RECURSIVE Gcd(_, _)
Gcd(a, b) == IF b = 0 THEN a ELSE Gcd(b, a % b)

Abs(x) == IF x < 0 THEN -x ELSE x

\* n / d with d > 0, in lowest terms
Rat(n, d) ==
    LET g == Gcd(Abs(n), d)
    IN  IF n = 0 THEN [n |-> 0, d |-> 1] ELSE [n |-> n \div g, d |-> d \div g]

Zero == Rat(0, 1)
One  == Rat(1, 1)

RAdd(x, y) == Rat(x.n * y.d + y.n * x.d, x.d * y.d)
RSub(x, y) == Rat(x.n * y.d - y.n * x.d, x.d * y.d)
RMul(x, y) == Rat(x.n * y.n, x.d * y.d)
RLt(x, y)  == x.n * y.d < y.n * x.d
RLe(x, y)  == x.n * y.d <= y.n * x.d

\* a raised ZeroDivisionError, as a value no number equals
ZeroDivisionError == [error |-> "ZeroDivisionError"]

\* Python's x / y on floats: raises ZeroDivisionError when y = 0 (also for 0.0 / 0.0)
RDiv(x, y) ==
    IF y.n = 0 THEN ZeroDivisionError
    ELSE IF y.n > 0 THEN Rat(x.n * y.d, x.d * y.n)
    ELSE Rat(-(x.n * y.d), x.d * (-y.n))

\* Python's int(x): truncation toward zero
RInt(x) == IF x.n >= 0 THEN x.n \div x.d ELSE -((-x.n) \div x.d)

\* Python's x % 1 on floats: the fractional part, in [0, 1)
RMod1(x) == Rat(x.n % x.d, x.d)

RECURSIVE RSumSeq(_)
RSumSeq(s) == IF s = <<>> THEN Zero ELSE RAdd(RSumSeq(SubSeq(s, 1, Len(s) - 1)), s[Len(s)])

\* reduce(lambda x, y: x * y, muls, 1)
RECURSIVE RProdSeq(_)
RProdSeq(s) == IF s = <<>> THEN One ELSE RMul(RProdSeq(SubSeq(s, 1, Len(s) - 1)), s[Len(s)])

(***************************************************************************)
(* IEEE-754 binary64 arithmetic for the clocks of the simulation, whose    *)
(* comparisons decide the control flow (time_elapsed < duration,           *)
(* shot_timer <= 0): the sum of two floats is rounded to 53 significant    *)
(* bits, ties to even.  A float is [sign, mant, exp] of value              *)
(* sign * mant * 2^exp, where mant is a natural number of exactly 53 bits  *)
(* written as its sequence of 15-bit limbs, lowest limb first (empty for   *)
(* 0.0), so equal values are equal records.                                *)
(***************************************************************************)
\* significant bits of a float
Precision == 53

\* bits per limb and the limb base
LimbBits == 15
LimbBase == 2^LimbBits

\* drop the zero limbs at the high end
RECURSIVE LStrip(_)
LStrip(a) ==
    IF a = <<>> THEN <<>>
    ELSE IF a[Len(a)] = 0 THEN LStrip(SubSeq(a, 1, Len(a) - 1)) ELSE a

\* the limbs of a natural number
RECURSIVE LOfNat(_)
LOfNat(n) == IF n = 0 THEN <<>> ELSE <<n % LimbBase>> \o LOfNat(n \div LimbBase)

\* number of bits of a natural number below the limb base
RECURSIVE NatBitLen(_)
NatBitLen(n) == IF n = 0 THEN 0 ELSE 1 + NatBitLen(n \div 2)

\* number of bits of a stripped number
LBitLen(a) == IF a = <<>> THEN 0 ELSE LimbBits * (Len(a) - 1) + NatBitLen(a[Len(a)])

\* a + b + carry
RECURSIVE LAddC(_, _, _)
LAddC(a, b, carry) ==
    IF a = <<>> /\ b = <<>> THEN (IF carry = 0 THEN <<>> ELSE <<carry>>)
    ELSE LET x == IF a = <<>> THEN 0 ELSE a[1]
             y == IF b = <<>> THEN 0 ELSE b[1]
             sum == x + y + carry
         IN  <<sum % LimbBase>> \o LAddC(IF a = <<>> THEN <<>> ELSE Tail(a),
                                         IF b = <<>> THEN <<>> ELSE Tail(b),
                                         sum \div LimbBase)

LAdd(a, b) == LAddC(a, b, 0)

\* a - b - borrow, for a >= b + borrow
RECURSIVE LSubB(_, _, _)
LSubB(a, b, borrow) ==
    IF a = <<>> THEN <<>>
    ELSE LET y == IF b = <<>> THEN 0 ELSE b[1]
             diff == a[1] - y - borrow
         IN  <<diff % LimbBase>> \o LSubB(Tail(a), IF b = <<>> THEN <<>> ELSE Tail(b),
                                          IF diff < 0 THEN 1 ELSE 0)

LSub(a, b) == LStrip(LSubB(a, b, 0))

\* a < b, for stripped a and b
RECURSIVE LLess(_, _)
LLess(a, b) ==
    IF Len(a) # Len(b) THEN Len(a) < Len(b)
    ELSE IF a = <<>> THEN FALSE
    ELSE IF a[Len(a)] # b[Len(b)] THEN a[Len(a)] < b[Len(b)]
    ELSE LLess(LStrip(SubSeq(a, 1, Len(a) - 1)), LStrip(SubSeq(b, 1, Len(b) - 1)))

\* a * f + carry for a factor f below the limb base
RECURSIVE LMulSmall(_, _, _)
LMulSmall(a, f, carry) ==
    IF a = <<>> THEN (IF carry = 0 THEN <<>> ELSE <<carry>>)
    ELSE LET prod == a[1] * f + carry
         IN  <<prod % LimbBase>> \o LMulSmall(Tail(a), f, prod \div LimbBase)

\* floor(a / d) and a mod d for a divisor 0 < d <= limb base
RECURSIVE LDivSmall(_, _)
LDivSmall(a, d) ==
    IF a = <<>> THEN [q |-> <<>>, r |-> 0]
    ELSE LET hi == LDivSmall(Tail(a), d)
             cur == hi.r * LimbBase + a[1]
         IN  [q |-> <<cur \div d>> \o hi.q, r |-> cur % d]

\* a * 2^k
LShl(a, k) ==
    IF a = <<>> THEN <<>>
    ELSE [i \in 1..(k \div LimbBits) |-> 0] \o LMulSmall(a, 2^(k % LimbBits), 0)

\* floor(a / 2^k)
LShr(a, k) ==
    LStrip(LDivSmall(SubSeq(a, (k \div LimbBits) + 1, Len(a)), 2^(k % LimbBits)).q)

FZero == [sign |-> 0, mant |-> <<>>, exp |-> 0]

\* the float nearest to sign * m * 2^e (m > 0), ties to even
FRound(sign, m, e) ==
    LET a == LStrip(m)
        k == LBitLen(a) - Precision
    IN  IF k <= 0 THEN [sign |-> sign, mant |-> LShl(a, -k), exp |-> e + k]
        ELSE LET q == LShr(a, k)
                 rest == LSub(a, LShl(q, k))
                 half == LShl(<<1>>, k - 1)
                 up == LLess(half, rest) \/ (rest = half /\ q[1] % 2 = 1)
                 r == IF up THEN LAdd(q, <<1>>) ELSE q
             IN  IF LBitLen(r) > Precision
                 THEN [sign |-> sign, mant |-> LShr(r, 1), exp |-> e + k + 1]
                 ELSE [sign |-> sign, mant |-> r, exp |-> e + k]

FNeg(x) == [x EXCEPT !.sign = -x.sign]

\* Python's x + y on floats
FAdd(x, y) ==
    IF x.sign = 0 THEN y
    ELSE IF y.sign = 0 THEN x
    ELSE LET e == IF x.exp < y.exp THEN x.exp ELSE y.exp
             mx == LShl(x.mant, x.exp - e)
             my == LShl(y.mant, y.exp - e)
         IN  IF x.sign = y.sign THEN FRound(x.sign, LAdd(mx, my), e)
             ELSE IF mx = my THEN FZero
             ELSE IF LLess(mx, my) THEN FRound(y.sign, LSub(my, mx), e)
             ELSE FRound(x.sign, LSub(mx, my), e)

\* Python's x - y on floats
FSub(x, y) == FAdd(x, FNeg(y))

\* |x| < |y| for nonzero floats: the mantissas have the same number of bits
FMagLess(x, y) == x.exp < y.exp \/ (x.exp = y.exp /\ LLess(x.mant, y.mant))

\* Python's x < y and x <= y on floats
FLt(x, y) ==
    IF x.sign # y.sign THEN x.sign < y.sign
    ELSE IF x.sign = 0 THEN FALSE
    ELSE IF x.sign = 1 THEN FMagLess(x, y) ELSE FMagLess(y, x)
FLe(x, y) == ~FLt(y, x)

\* the limbs of a * b
RECURSIVE LMul(_, _)
LMul(a, b) ==
    IF a = <<>> \/ b = <<>> THEN <<>>
    ELSE LAdd(LMulSmall(a, b[1], 0), LStrip(<<0>> \o LMul(a, Tail(b))))

\* Python's x * y on floats
FMul(x, y) ==
    IF x.sign = 0 \/ y.sign = 0 THEN FZero
    ELSE FRound(x.sign * y.sign, LMul(x.mant, y.mant), x.exp + y.exp)

\* the float nearest to the rational r (0 < r.d <= limb base): a float literal, and
\* n / d on operands that are exact
FOfRat(r) ==
    LET k == Precision + 2 + NatBitLen(r.d)
        qr == LDivSmall(LShl(LOfNat(Abs(r.n)), k), r.d)
        sticky == IF qr.r = 0 THEN 0 ELSE 1
    IN  IF r.n = 0 THEN FZero
        ELSE FRound(IF r.n < 0 THEN -1 ELSE 1, LMulSmall(LStrip(qr.q), 2, sticky), -(k + 1))

(***************************************************************************)
(* DOT types, behaviours and configurations.                               *)
(***************************************************************************)
\* class DotType(Enum): the enum values
DotType == {"heat", "toxin", "slash", "electricity", "gas", "bleed"}

REFRESH_ALL == "refresh_all"
INDEPENDENT == "independent"
DotBehavior == {REFRESH_ALL, INDEPENDENT}

\* initialize_dot_configs: element name -> DotConfig
DOT_CONFIG_MAP ==
    [e \in {"heat", "toxin", "slash", "electricity", "gas"} |->
        [dot_type          |-> e,
         behavior          |-> IF e = "heat" THEN REFRESH_ALL ELSE INDEPENDENT,
         base_duration     |-> Rat(6, 1),
         tick_rate         |-> Rat(1, 1),
         damage_multiplier |-> IF e = "slash" THEN Rat(35, 100) ELSE Rat(1, 2)]]

\* DotConfig.create_instance(base_damage), with the default crit_chance = 0.0:
\* random.random() < 0.0 is never true, so no critical factor is applied.
create_instance(config, base_damage) ==
    [dot_type           |-> config.dot_type,
     damage_per_tick    |-> RMul(base_damage, config.damage_multiplier),
     remaining_duration |-> config.base_duration,
     tick_rate          |-> config.tick_rate,
     total_duration     |-> config.base_duration]

(***************************************************************************)
(* DotInstance and DotState.  active_dots is a dict: a function whose      *)
(* DOMAIN is the set of keys present.                                      *)
(***************************************************************************)
EmptyDots == [k \in {} |-> <<>>]

\* DotInstance.is_active
is_active(inst) == RLt(Zero, inst.remaining_duration)

\* DotInstance.tick: the instance after the tick
tick_instance(inst, delta_time) ==
    IF RLe(inst.remaining_duration, Zero) THEN inst
    ELSE [inst EXCEPT !.remaining_duration = RSub(inst.remaining_duration, delta_time)]

\* DotInstance.tick: the damage it returns
tick_damage(inst, delta_time) ==
    IF RLe(inst.remaining_duration, Zero) THEN Zero
    ELSE RMul(RMul(inst.damage_per_tick, delta_time), inst.tick_rate)

\* mutant of add_dot: a refresh-all proc is appended without refreshing the others
add_dot_no_refresh(dots, dot_instance, behavior) ==
    LET dot_type == dot_instance.dot_type
        existing == IF dot_type \in DOMAIN dots THEN dots[dot_type] ELSE <<>>
    IN  [k \in (DOMAIN dots) \cup {dot_type} |->
            IF k = dot_type THEN Append(existing, dot_instance) ELSE dots[k]]

\* mutant of add_dot: every proc refreshes the existing instances, whatever the behavior
add_dot_refresh_always(dots, dot_instance, behavior) ==
    LET dot_type == dot_instance.dot_type
        existing == IF dot_type \in DOMAIN dots THEN dots[dot_type] ELSE <<>>
        refreshed == [i \in 1..Len(existing) |->
                        [existing[i] EXCEPT !.remaining_duration = dot_instance.total_duration]]
    IN  [k \in (DOMAIN dots) \cup {dot_type} |->
            IF k = dot_type THEN Append(refreshed, dot_instance) ELSE dots[k]]

\* DotState.add_dot
add_dot(dots, dot_instance, behavior) ==
    LET dot_type == dot_instance.dot_type
        existing == IF dot_type \in DOMAIN dots THEN dots[dot_type] ELSE <<>>
        refreshed == [i \in 1..Len(existing) |->
                        [existing[i] EXCEPT !.remaining_duration = dot_instance.total_duration]]
        updated == IF behavior = REFRESH_ALL THEN Append(refreshed, dot_instance)
                   ELSE IF behavior = INDEPENDENT THEN Append(existing, dot_instance)
                   ELSE existing
    IN  [k \in (DOMAIN dots) \cup {dot_type} |-> IF k = dot_type THEN updated ELSE dots[k]]

\* DotState.tick_all, per dot type: the instances after instance.tick
ticked_instances(instances, delta_time) ==
    [i \in 1..Len(instances) |-> tick_instance(instances[i], delta_time)]

\* DotState.tick_all, per dot type: total_damage
total_tick_damage(instances, delta_time) ==
    RSumSeq([i \in 1..Len(instances) |-> tick_damage(instances[i], delta_time)])

\* DotState.tick_all, per dot type: active_instances
active_instances(instances, delta_time) ==
    SelectSeq(ticked_instances(instances, delta_time), is_active)

\* mutant of tick_all_kept: a type without active instances is not deleted
tick_all_kept_no_del(dots, delta_time) == DOMAIN dots

\* DotState.tick_all: the keys kept (if active_instances: ... else: del)
tick_all_kept(dots, delta_time) ==
    {t \in DOMAIN dots : active_instances(dots[t], delta_time) # <<>>}

\* DotState.tick_all: active_dots after the call
tick_all_dots(dots, delta_time) ==
    [t \in tick_all_kept(dots, delta_time) |-> active_instances(dots[t], delta_time)]

\* DotState.tick_all: the returned damage_dealt dict
tick_all_damage(dots, delta_time) ==
    [t \in tick_all_kept(dots, delta_time) |-> total_tick_damage(dots[t], delta_time)]

\* DotState.get_active_stacks
get_active_stacks(dots, dot_type) ==
    IF dot_type \in DOMAIN dots THEN Len(dots[dot_type]) ELSE 0

(***************************************************************************)
(* Elements (wf_dataclasses.py): a record of 20 float fields, modelled as  *)
(* a function from the field names.                                        *)
(***************************************************************************)
ElementFields ==
    {"impact", "puncture", "slash", "cold", "electricity", "heat", "toxin",
     "cold_standalone", "electricity_standalone", "heat_standalone", "toxin_standalone",
     "blast", "corrosive", "gas", "magnetic", "radiation", "viral",
     "void", "tau", "true_dmg"}

\* the fields in the order of their declaration, which is the order of __dict__
ElementFieldOrder ==
    <<"impact", "puncture", "slash", "cold", "electricity", "heat", "toxin",
      "cold_standalone", "electricity_standalone", "heat_standalone", "toxin_standalone",
      "blast", "corrosive", "gas", "magnetic", "radiation", "viral",
      "void", "tau", "true_dmg">>

\* Elements(**kw): the fields given, the others 0.0
Elements(kw) == [k \in ElementFields |-> IF k \in DOMAIN kw THEN kw[k] ELSE Zero]

\* Elements(): all fields 0.0
NoElements == [k \in ElementFields |-> Zero]

ELEMENT_COMBINATION_MAP ==
    [a \in {"cold", "electricity", "heat", "toxin"} |->
        CASE a = "cold"        -> ("electricity" :> "magnetic" @@ "heat" :> "blast" @@ "toxin" :> "viral")
          [] a = "electricity" -> ("cold" :> "magnetic" @@ "heat" :> "radiation" @@ "toxin" :> "corrosive")
          [] a = "heat"        -> ("cold" :> "blast" @@ "electricity" :> "radiation" @@ "toxin" :> "gas")
          [] a = "toxin"       -> ("cold" :> "viral" @@ "electricity" :> "corrosive" @@ "heat" :> "gas")]

\* sum of f[k] over k in S
RECURSIVE RSumOver(_, _)
RSumOver(f, S) ==
    IF S = {} THEN Zero
    ELSE LET k == CHOOSE x \in S : TRUE IN RAdd(f[k], RSumOver(f, S \ {k}))

\* Elements.total
total(self) == RSumOver(self, ElementFields)

\* Elements.total_with_vulnerability
total_with_vulnerability(self, vulnerability) ==
    RSumOver([k \in ElementFields |-> RMul(self[k], vulnerability[k])], ElementFields)

\* Elements.set_all
set_all(value) == [k \in ElementFields |-> value]

\* Elements.set_all_zeroes_to_value
set_all_zeroes_to_value(self, value) ==
    [k \in ElementFields |-> IF self[k] = Zero THEN value ELSE self[k]]

\* Elements.get_element
get_element(self, element) ==
    IF element \in DOMAIN ELEMENT_COMBINATION_MAP
    THEN RAdd(self[element], self[element \o "_standalone"])
    ELSE self[element]

\* Elements.to_dict: the non-zero fields
to_dict(self) == [k \in {f \in ElementFields : self[f] # Zero} |-> self[k]]

\* Elements.combine_elements: element_order_clean (first occurrence of each basic element)
RECURSIVE element_order_clean(_)
element_order_clean(element_order) ==
    IF element_order = <<>> THEN <<>>
    ELSE LET front == element_order_clean(SubSeq(element_order, 1, Len(element_order) - 1))
             e == element_order[Len(element_order)]
         IN  IF e \in DOMAIN ELEMENT_COMBINATION_MAP /\ \A i \in 1..Len(front) : front[i] # e
             THEN Append(front, e) ELSE front

\* Elements.combine_elements: the while loop that pops and folds two elements at a time
RECURSIVE combine_pairs(_, _)
combine_pairs(self, clean) ==
    IF Len(clean) <= 1 THEN self
    ELSE LET e1 == clean[1]
             e2 == clean[2]
             e_combined == ELEMENT_COMBINATION_MAP[e1][e2]
             folded == [self EXCEPT ![e_combined] = RAdd(RAdd(self[e1], self[e2]), self[e_combined]),
                                    ![e1] = Zero, ![e2] = Zero]
         IN  combine_pairs(folded, SubSeq(clean, 3, Len(clean)))

\* variant of _combine_standalone_elements that leaves the vector as it is
combine_standalone_elements_skip(self) == self
\* Elements._combine_standalone_elements
combine_standalone_elements(self) ==
    [k \in ElementFields |->
        IF k \in DOMAIN ELEMENT_COMBINATION_MAP THEN RAdd(self[k \o "_standalone"], self[k])
        ELSE IF k \in {b \o "_standalone" : b \in DOMAIN ELEMENT_COMBINATION_MAP} THEN Zero
        ELSE self[k]]

\* Elements.combine_elements(element_order), combine_standalone = True
combine_elements(self, element_order) ==
    combine_standalone_elements(combine_pairs(self, element_order_clean(element_order)))

\* Elements.__add__ (_SupportsMath.__add__ on two Elements): field-wise sum
add_elements(a, b) == [k \in ElementFields |-> RAdd(a[k], b[k])]

(***************************************************************************)
(* Stat bundles (wf_dataclasses.py) and their merge.                       *)
(***************************************************************************)
\* variant of the dict merge that keeps only the keys of the first dict
add_dicts_first_keys(a, b) ==
    [k \in DOMAIN a |-> IF k \in DOMAIN b THEN RAdd(a[k], b[k]) ELSE a[k]]
\* _SupportsMath._add_field on two dicts: sum on shared keys, unique keys from either side
add_dicts(a, b) ==
    [k \in (DOMAIN a) \cup (DOMAIN b) |->
        IF k \in DOMAIN a /\ k \in DOMAIN b THEN RAdd(a[k], b[k])
        ELSE IF k \in DOMAIN a THEN a[k] ELSE b[k]]

\* _SupportsMath._add_field, by the type of the field's value
add_field(name, self_value, other_value) ==
    CASE name = "faction"   -> add_dicts(self_value, other_value)
      [] name = "elements"  -> add_elements(self_value, other_value)
      [] name = "callbacks" -> self_value \o other_value
      [] OTHER              -> RAdd(self_value, other_value)

\* _SupportsMath.__add__ / _add_fields(inplace=False): a new bundle of self's type;
\* a field other lacks keeps self's value
add_bundles(self, other) ==
    [f \in DOMAIN self |->
        IF f \in DOMAIN other THEN add_field(f, self[f], other[f]) ELSE self[f]]

NoFaction == [k \in {} |-> Zero]

\* _GeneralStat / StaticBuff defaults
StaticBuff ==
    [damage |-> Zero, attack_speed |-> Zero, multishot |-> Zero, critical_chance |-> Zero,
     critical_damage |-> Zero, status_chance |-> Zero, status_duration |-> Zero,
     elements |-> NoElements, faction |-> NoFaction]

\* InGameBuff defaults
InGameBuff ==
    [damage |-> Zero, attack_speed |-> Zero, multishot |-> Zero, critical_chance |-> Zero,
     critical_damage |-> Zero, status_chance |-> Zero, status_duration |-> Zero,
     elements |-> NoElements, faction |-> NoFaction,
     galvanized_shot |-> Zero, galvanized_diffusion |-> Zero, galvanized_aptitude |-> Zero,
     final_additive_cd |-> Zero, num_debuffs |-> Zero, final_multiplier |-> One,
     callbacks |-> <<>>]

\* WeaponStat defaults after __post_init__ / _normalize_elements (total 0 -> impact = 1)
WeaponStat ==
    [damage |-> One, attack_speed |-> One, multishot |-> One, critical_chance |-> Zero,
     critical_damage |-> One, status_chance |-> Zero, status_duration |-> One,
     elements |-> Elements("impact" :> One), faction |-> NoFaction]

\* WeaponStat._normalize_elements
normalize_elements(elements) ==
    IF total(elements) = Zero THEN Elements("impact" :> One)
    ELSE IF total(elements) # One
         THEN [k \in ElementFields |-> RMul(elements[k], RDiv(One, total(elements)))]
         ELSE elements

\* WeaponStat(**kw): the fields given, the others at their defaults, elements normalized
NewWeaponStat(kw) ==
    [f \in DOMAIN WeaponStat |->
        IF f = "elements"
        THEN normalize_elements(IF f \in DOMAIN kw THEN kw[f] ELSE NoElements)
        ELSE IF f \in DOMAIN kw THEN kw[f] ELSE WeaponStat[f]]

\* InGameBuff(**kw): the fields given, the others at their defaults
NewInGameBuff(kw) ==
    [f \in DOMAIN InGameBuff |-> IF f \in DOMAIN kw THEN kw[f] ELSE InGameBuff[f]]

\* StaticBuff(**kw)
NewStaticBuff(kw) ==
    [f \in DOMAIN StaticBuff |-> IF f \in DOMAIN kw THEN kw[f] ELSE StaticBuff[f]]

(***************************************************************************)
(* Mod callbacks (mod_callbacks.py).  A callback that reads a field        *)
(* InGameBuff does not declare (combo_multiplier, galvanized_scope, ...)   *)
(* raises AttributeError.                                                  *)
(***************************************************************************)
IN_GAME_BUFF == "in_game_buff"

\* a raised AttributeError, as a value no bundle equals
AttributeError == [error |-> "AttributeError"]

\* the CallBack objects: type and priority_group
CALLBACK_MAPPING ==
    [name \in {"galvanized_shot", "galvanized_diffusion", "galvanized_crosshairs",
               "secondary_enervate", "secondary_outburst",
               "galvanized_scope", "galvanized_aptitude", "galvanized_chamber",
               "galvanized_savvy", "galvanized_hell",
               "condition_overload", "blood_rush", "weeping_wounds"} |->
        [type |-> IN_GAME_BUFF,
         priority_group |-> IF name = "secondary_enervate" THEN 1 ELSE 0]]

\* CallBack.__call__: the lambda of each callback applied to the bundle
call_callback(name, igb) ==
    CASE name \in {"galvanized_crosshairs", "secondary_outburst", "galvanized_scope",
                   "galvanized_chamber", "galvanized_savvy", "galvanized_hell",
                   "blood_rush", "weeping_wounds"} -> AttributeError
      [] name = "galvanized_shot" ->
            [igb EXCEPT !.damage =
                RAdd(igb.damage, RMul(RMul(igb.galvanized_shot, igb.num_debuffs), Rat(4, 10)))]
      [] name = "galvanized_aptitude" ->
            [igb EXCEPT !.damage =
                RAdd(igb.damage, RMul(RMul(igb.galvanized_aptitude, igb.num_debuffs), Rat(4, 10)))]
      [] name = "galvanized_diffusion" ->
            [igb EXCEPT !.multishot =
                RAdd(igb.multishot, RMul(igb.galvanized_diffusion, Rat(3, 10)))]
      [] name = "condition_overload" ->
            [igb EXCEPT !.damage = RAdd(igb.damage, RMul(igb.num_debuffs, Rat(8, 10)))]
      [] name = "secondary_enervate" ->
            [igb EXCEPT !.critical_chance =
                RMul(RAdd(Rat(305, 100), igb.critical_chance), Rat(1, 2))]

\* DamageCalculator.__init__: the order in which the callbacks of the merged bundle are called
callbacks_called(callbacks) ==
    SelectSeq(callbacks, LAMBDA name : CALLBACK_MAPPING[name].type = IN_GAME_BUFF)

\* DamageCalculator.__init__: for callback in self.final_buff.callbacks: callback(self.final_buff)
\* (the loop ends at the first callback that raises)
RECURSIVE apply_callbacks(_, _)
apply_callbacks(buff, callbacks) ==
    IF callbacks = <<>> \/ buff = AttributeError THEN buff
    ELSE apply_callbacks(call_callback(callbacks[1], buff), SubSeq(callbacks, 2, Len(callbacks)))

(***************************************************************************)
(* EnemyStat (wf_dataclasses.py, enemy_data.py).                           *)
(***************************************************************************)
TRIDOLON == "tridolon"

faction_element_vulnerability ==
    [f \in {"grineer", "corpus", "infested", "orokin", "murmur", "sentient"} |->
        CASE f = "grineer"  -> Elements("impact" :> Rat(3, 2) @@ "corrosive" :> Rat(3, 2))
          [] f = "corpus"   -> Elements("puncture" :> Rat(3, 2) @@ "magnetic" :> Rat(3, 2))
          [] f = "infested" -> Elements("slash" :> Rat(3, 2) @@ "heat" :> Rat(3, 2))
          [] f = "orokin"   -> Elements("puncture" :> Rat(3, 2) @@ "viral" :> Rat(3, 2)
                                        @@ "radiation" :> Rat(1, 2))
          [] f = "murmur"   -> Elements("electricity" :> Rat(3, 2) @@ "radiation" :> Rat(3, 2)
                                        @@ "viral" :> Rat(1, 2))
          [] f = "sentient" -> Elements("cold" :> Rat(3, 2) @@ "radiation" :> Rat(3, 2)
                                        @@ "corrosive" :> Rat(1, 2))]

\* the members of EnemyFaction and EnemyType (StrEnum, auto(): the lower-case names)
EnemyFaction == {"none", "grineer", "corpus", "infested", "orokin", "murmur", "sentient"}
EnemyType == {"none", TRIDOLON}

\* str.lower() of one character: the letters A to Z (the names handed to
\* get_enemy_stat are ASCII); every other character is unchanged
lower_char(c) ==
    CASE c = "A" -> "a" [] c = "B" -> "b" [] c = "C" -> "c" [] c = "D" -> "d"
      [] c = "E" -> "e" [] c = "F" -> "f" [] c = "G" -> "g" [] c = "H" -> "h"
      [] c = "I" -> "i" [] c = "J" -> "j" [] c = "K" -> "k" [] c = "L" -> "l"
      [] c = "M" -> "m" [] c = "N" -> "n" [] c = "O" -> "o" [] c = "P" -> "p"
      [] c = "Q" -> "q" [] c = "R" -> "r" [] c = "S" -> "s" [] c = "T" -> "t"
      [] c = "U" -> "u" [] c = "V" -> "v" [] c = "W" -> "w" [] c = "X" -> "x"
      [] c = "Y" -> "y" [] c = "Z" -> "z"
      [] OTHER -> c

\* str.lower(): every character lower-cased
RECURSIVE lower(_)
lower(name) ==
    IF Len(name) = 0 THEN name ELSE lower_char(Head(name)) \o lower(Tail(name))

\* EnemyFaction(faction.lower()) / EnemyType(type.lower()); ValueError gives NONE
parse_enum(members, name) == IF lower(name) \in members THEN lower(name) ELSE "none"

\* get_enemy_stat(faction, type): a fresh EnemyStat (no armor, no debuff, empty DotState)
get_enemy_stat(faction, type) ==
    LET parsed_faction == parse_enum(EnemyFaction, faction)
        parsed_type == parse_enum(EnemyType, type)
    IN  [faction |-> parsed_faction,
         type |-> parsed_type,
         elements_vulnerability |->
            set_all_zeroes_to_value(
                IF parsed_faction \in DOMAIN faction_element_vulnerability
                THEN faction_element_vulnerability[parsed_faction] ELSE NoElements, One)]

(***************************************************************************)
(* DamageCalculator (damage_calculator.py).  `self` is the record built by *)
(* DamageCalculator(...).                                                  *)
(***************************************************************************)
\* DamageCalculator.__init__: the object, or the AttributeError a callback raised
DamageCalculator(weapon_stat, static_buff, in_game_buff, enemy_stat, element_order) ==
    LET merged == add_bundles(in_game_buff, static_buff)
        final_buff == apply_callbacks(merged, callbacks_called(merged.callbacks))
        summed == add_elements(final_buff.elements, weapon_stat.elements)
    IN  IF final_buff = AttributeError THEN AttributeError ELSE
        [weapon_stat |-> weapon_stat,
         static_buff |-> static_buff,
         in_game_buff |-> in_game_buff,
         enemy_stat |-> enemy_stat,
         element_order |-> element_order,
         final_buff |-> final_buff,
         callbacks_called |-> callbacks_called(merged.callbacks),
         combined_elements |-> IF element_order # <<>>
                               THEN combine_elements(summed, element_order) ELSE summed]

\* DamageCalculator.calc_elem
calc_elem(self) ==
    total_with_vulnerability(self.combined_elements, self.enemy_stat.elements_vulnerability)

\* DamageCalculator._get_base
get_base(self) == RAdd(One, self.final_buff.damage)

\* DamageCalculator._get_cc
get_cc(self) ==
    RMul(self.weapon_stat.critical_chance, RAdd(One, self.final_buff.critical_chance))

\* DamageCalculator._get_cd
get_cd(self) ==
    RAdd(RMul(self.weapon_stat.critical_damage, RAdd(One, self.final_buff.critical_damage)),
         self.in_game_buff.final_additive_cd)

\* DamageCalculator._get_crit
get_crit(self) == RAdd(RMul(get_cc(self), RSub(get_cd(self), One)), One)

\* DamageCalculator._get_faction
get_faction(self) ==
    RAdd(One, IF self.enemy_stat.faction \in DOMAIN self.final_buff.faction
              THEN self.final_buff.faction[self.enemy_stat.faction] ELSE Zero)

\* DamageCalculator._get_ms
get_ms(self) == RMul(self.weapon_stat.multishot, RAdd(One, self.final_buff.multishot))

\* DamageCalculator._get_as
get_as(self) == RMul(self.weapon_stat.attack_speed, RAdd(One, self.final_buff.attack_speed))

\* DamageCalculator._get_sc() without element
get_sc(self) == RMul(self.weapon_stat.status_chance, RAdd(One, self.final_buff.status_chance))

\* DamageCalculator._get_sc(element): sc * combined.get_element(element) / combined.total()
get_sc_element(self, element) ==
    RDiv(RMul(get_sc(self), get_element(self.combined_elements, element)),
         total(self.combined_elements))

\* variant of _get_eidolon_non_crit_penalty without the cap at critical chance >= 1
get_eidolon_non_crit_penalty_uncapped(self) ==
    LET cc == RMul(self.weapon_stat.critical_chance, RAdd(One, self.final_buff.critical_chance))
    IN  RSub(One, RMul(RSub(One, cc), Rat(1, 2)))
\* DamageCalculator._get_eidolon_non_crit_penalty
get_eidolon_non_crit_penalty(self) ==
    LET cc == RMul(self.weapon_stat.critical_chance, RAdd(One, self.final_buff.critical_chance))
    IN  IF RLt(cc, One) THEN RSub(One, RMul(RSub(One, cc), Rat(1, 2))) ELSE One

\* DamageCalculator.calc_single_hit_without_elements
calc_single_hit_without_elements(self) ==
    RProdSeq(<<self.weapon_stat.damage, get_base(self), get_crit(self), get_faction(self),
               self.in_game_buff.final_multiplier>>)

\* DamageCalculator.calc_single_hit
calc_single_hit(self) == RMul(calc_single_hit_without_elements(self), calc_elem(self))

\* DamageCalculator.calc_direct_dps
calc_direct_dps(self) ==
    LET per_hit == calc_single_hit(self)
        hit_per_sec == RMul(get_as(self), get_ms(self))
    IN  RProdSeq(<<per_hit, hit_per_sec>> \o
                 (IF self.enemy_stat.type = TRIDOLON
                  THEN <<get_eidolon_non_crit_penalty(self)>> ELSE <<>>))

\* calc_dot with the faction multiplier taken once (only inside the single-hit product)
calc_dot_single_faction(self, element) ==
    LET sc == get_sc_element(self, element)
        elem_mod_and_buff == RAdd(get_element(self.final_buff.elements, element), One)
    IN  IF sc = ZeroDivisionError THEN ZeroDivisionError
        ELSE RProdSeq(<<Rat(1, 2), calc_single_hit_without_elements(self),
                        elem_mod_and_buff,
                        RMul(RMul(sc, get_as(self)), get_ms(self))>>)

\* DamageCalculator.calc_dot(element); ZeroDivisionError when _get_sc(element) raises
calc_dot(self, element) ==
    LET sc == get_sc_element(self, element)
        elem_mod_and_buff == RAdd(get_element(self.final_buff.elements, element), One)
    IN  IF sc = ZeroDivisionError THEN ZeroDivisionError
        ELSE RProdSeq(<<Rat(1, 2), calc_single_hit_without_elements(self),
                        elem_mod_and_buff, get_faction(self),
                        RMul(RMul(sc, get_as(self)), get_ms(self))>>)

\* the elements DamageCalculator.calc_dots evaluates
CalcDotsElements == {"heat", "toxin", "slash", "electricity"}

\* DamageCalculator.calc_dots: the entries > 0; ZeroDivisionError when a calc_dot raises
calc_dots(self) ==
    IF \E e \in CalcDotsElements : calc_dot(self, e) = ZeroDivisionError
    THEN ZeroDivisionError
    ELSE [e \in {x \in CalcDotsElements : RLt(Zero, calc_dot(self, x))} |-> calc_dot(self, e)]

(***************************************************************************)
(* The stochastic simulation (damage_calculator.py).  Every random.random()*)
(* draw is a nondeterministic choice among the outcomes it can produce.    *)
(***************************************************************************)
\* int(x) + (1 if random.random() < x % 1 else 0): the values the roll can produce
\* (_simulate_ms, _simulate_crit)
roll_levels(x) ==
    {RInt(x)} \cup (IF RLt(Zero, RMod1(x)) THEN {RInt(x) + 1} ELSE {})

\* DamageCalculator._simulate_crit: the multiplier of a rolled crit_level
simulate_crit(self, crit_level) ==
    RAdd(RMul(Rat(crit_level, 1), RSub(get_cd(self), One)), One)

\* _roll_status_procs: num_procs = int(status_chance), plus one when
\* random.random() < status_chance - int(status_chance)
num_procs(status_chance) ==
    {RInt(status_chance)}
    \cup (IF RLt(Zero, RSub(status_chance, Rat(RInt(status_chance), 1)))
          THEN {RInt(status_chance) + 1} ELSE {})

\* _roll_status_procs: rand = random.random() * total_damage can take a value above
\* every cumulative weight of `above` (random.random() is in [0, 1))
rand_above(total_damage, above) ==
    \A c \in above : RLt(c, IF RLt(Zero, total_damage) THEN total_damage ELSE Zero)

\* _roll_status_procs: rand can take a value above every cumulative weight of `above`
\* and not above `upto`
rand_falls(total_damage, above, upto) ==
    /\ rand_above(total_damage, above)
    /\ \A c \in above : RLt(c, upto)
    /\ IF RLt(total_damage, Zero) THEN RLt(total_damage, upto) ELSE RLe(Zero, upto)

\* _roll_status_procs, one pass of `for _ in range(num_procs)`: what the pass appends
\* to procs, the first element of weights (in the order of the dict) with
\* rand <= cumulative, or nothing when the inner loop ends without a break
proc_picks(self) ==
    LET weights == to_dict(self.combined_elements)
        keys == SelectSeq(ElementFieldOrder, LAMBDA k : k \in DOMAIN weights)
        cumulative == [i \in 1..Len(keys) |-> RSumSeq([j \in 1..i |-> weights[keys[j]]])]
        total_damage == IF keys = <<>> THEN Zero ELSE cumulative[Len(keys)]
    IN  {<<keys[i]>> : i \in {k \in 1..Len(keys) :
                                rand_falls(total_damage, {cumulative[j] : j \in 1..(k - 1)},
                                           cumulative[k])}}
        \cup (IF rand_above(total_damage, {cumulative[j] : j \in 1..Len(keys)})
              THEN {<<>>} ELSE {})

\* the lists n passes can build from the picks
RECURSIVE procs_of(_, _)
procs_of(picks, n) ==
    IF n <= 0 THEN {<<>>} ELSE {procs \o pick : procs \in procs_of(picks, n - 1), pick \in picks}

\* DamageCalculator._roll_status_procs: the lists of procs one call can return
roll_status_procs(self) ==
    UNION {IF n = 0 \/ DOMAIN to_dict(self.combined_elements) = {} THEN {<<>>}
           ELSE procs_of(proc_picks(self), n) :
             n \in num_procs(get_sc(self))}

\* apply_status_proc: proc_damage = base_damage * element_multiplier * _get_faction()
proc_damage(self, element, base_damage) ==
    RMul(RMul(base_damage, RAdd(get_element(self.final_buff.elements, element), One)),
         get_faction(self))

\* variant of apply_status_proc whose proc_damage leaves out the faction multiplier
apply_status_proc_no_faction(self, dots, element, base_damage) ==
    IF element \notin DOMAIN DOT_CONFIG_MAP THEN dots
    ELSE LET config == DOT_CONFIG_MAP[element]
             element_multiplier == RAdd(get_element(self.final_buff.elements, element), One)
         IN  add_dot(dots, create_instance(config, RMul(base_damage, element_multiplier)),
                     config.behavior)
\* DamageCalculator.apply_status_proc(element, base_damage): dot_state after the call
apply_status_proc(self, dots, element, base_damage) ==
    IF element \notin DOMAIN DOT_CONFIG_MAP THEN dots
    ELSE LET config == DOT_CONFIG_MAP[element]
         IN  add_dot(dots, create_instance(config, proc_damage(self, element, base_damage)),
                     config.behavior)

\* _simulate_single_hit: fixed_base_damage
fixed_base_damage(self) ==
    RProdSeq(<<self.weapon_stat.damage, get_base(self), get_faction(self),
               self.in_game_buff.final_multiplier>>)

\* _simulate_single_hit: base_damage of a pellet with the rolled crit_level
pellet_base_damage(self, crit_level) ==
    RMul(fixed_base_damage(self), simulate_crit(self, crit_level))

\* _simulate_single_hit: the inner loop `for proc in procs` of one pellet
RECURSIVE apply_procs(_, _, _, _)
apply_procs(self, dots, procs, base_damage) ==
    IF procs = <<>> THEN dots
    ELSE apply_procs(self, apply_status_proc(self, dots, procs[1], base_damage),
                     SubSeq(procs, 2, Len(procs)), base_damage)

\* _simulate_single_hit: dot_state after the pellets; a pellet is
\* [crit_level |-> rolled level, procs |-> rolled list of elements]
RECURSIVE hit_dots(_, _, _)
hit_dots(self, dots, pellets) ==
    IF pellets = <<>> THEN dots
    ELSE hit_dots(self,
                  apply_procs(self, dots, pellets[1].procs,
                              pellet_base_damage(self, pellets[1].crit_level)),
                  SubSeq(pellets, 2, Len(pellets)))

\* number of times element occurs in a list of procs
count_in(procs, element) == Len(SelectSeq(procs, LAMBDA x : x = element))

\* _simulate_single_hit: the proc_counts defaultdict it returns
hit_proc_counts(pellets) ==
    LET hit == UNION {{pellets[i].procs[j] : j \in 1..Len(pellets[i].procs)} :
                        i \in 1..Len(pellets)}
        RECURSIVE Cnt(_, _)
        Cnt(e, i) == IF i = 0 THEN 0 ELSE Cnt(e, i - 1) + count_in(pellets[i].procs, e)
    IN  [e \in hit |-> Cnt(e, Len(pellets))]

\* _simulate_single_hit: the total direct damage it returns
hit_damage(self, pellets) ==
    RMul(RSumSeq([i \in 1..Len(pellets) |-> pellet_base_damage(self, pellets[i].crit_level)]),
         total_with_vulnerability(self.combined_elements,
                                  self.enemy_stat.elements_vulnerability))

\* the pellets one _simulate_single_hit call can roll
simulate_pellets(self) ==
    UNION {[1..n -> [crit_level : roll_levels(get_cc(self)), procs : roll_status_procs(self)]] :
             n \in roll_levels(get_ms(self))}

\* float("inf")
Inf == [inf |-> TRUE]

\* simulate_combat: time_between_shots = 1.0 / attack_speed if attack_speed > 0
\* else float("inf"), a float (the attack speeds of the model are exact as floats, so
\* the quotient is the float nearest to the exact one)
time_between_shots(self) ==
    IF RLt(Zero, get_as(self)) THEN FOfRat(RDiv(One, get_as(self))) ELSE Inf

\* shot_timer += time_between_shots
timer_add(shot_timer, dt) == IF shot_timer = Inf \/ dt = Inf THEN Inf ELSE FAdd(shot_timer, dt)

\* shot_timer -= time_step
timer_sub(shot_timer, dt) == IF shot_timer = Inf THEN Inf ELSE FSub(shot_timer, dt)

\* shot_timer <= 0
timer_due(shot_timer) == shot_timer # Inf /\ FLe(shot_timer, FZero)

\* _reset_simulation: the value assigned to enemy_stat.dot_state
reset_simulation_keep(dots) == dots
reset_simulation(dots) == EmptyDots

\* simulate_combat, SIM_V2 branch: proc_counts after
\*   direct_damage, proc_counts = self._simulate_single_hit()
\*   for proc, count in proc_counts.items(): proc_counts[proc] += count
\* the name is rebound to the dict of this hit, whose counts are then added to themselves
shot_proc_counts(proc_counts, hit_counts) ==
    [e \in DOMAIN hit_counts |-> hit_counts[e] + hit_counts[e]]

(***************************************************************************)
(* Debuffs (wf_dataclasses.py).  The armor and the clock are floats.  The  *)
(* enemy is [base_armor, current_armor, active_debuffs, active_dots].      *)
(***************************************************************************)
HEAT_ARMOR_STRIP == "heat_armor_strip"
REFRESH == "refresh"
STACK == "stack"

FOne == FOfRat(One)

\* EnemyStat.__post_init__: armor capped at 2700
ARMOR_CAP == 2700

\* HeatArmorStripDebuff constants
STRIP_PERCENTAGES ==
    <<FZero, FOfRat(Rat(15, 100)), FOfRat(Rat(30, 100)), FOfRat(Rat(40, 100)),
      FOfRat(Rat(50, 100))>>
STRIP_INTERVAL == FOfRat(Rat(1, 2))
RECOVERY_INTERVAL == FOfRat(Rat(3, 2))

\* EnemyStat(base_armor = armor) after __post_init__: base_armor and current_armor
capped_armor(armor) ==
    IF FLt(FOfRat(Rat(ARMOR_CAP, 1)), armor) THEN FOfRat(Rat(ARMOR_CAP, 1)) ELSE armor

\* HeatArmorStripDebuff(): the fields Debuff.__init__ sets and the class attributes
\* strip_stage and last_recovery_tick
HeatArmorStripDebuff ==
    [debuff_type         |-> HEAT_ARMOR_STRIP,
     debuff_refresh_type |-> REFRESH,
     tick_interval       |-> FOfRat(Rat(1, 2)),
     last_tick_time      |-> FZero,
     expiration_time     |-> FZero,
     duration            |-> FOfRat(Rat(6, 1)),
     strip_stage         |-> 0,
     last_recovery_tick  |-> FNeg(FOne)]

\* Debuff.refresh
refresh(debuff, time) ==
    [debuff EXCEPT !.expiration_time = FAdd(time, debuff.duration)]

\* EnemyStat.get_debuff_by_type: index of the first debuff of the type, 0 for None
get_debuff_by_type(debuffs, debuff_type) ==
    IF \E i \in 1..Len(debuffs) : debuffs[i].debuff_type = debuff_type
    THEN CHOOSE i \in 1..Len(debuffs) :
            /\ debuffs[i].debuff_type = debuff_type
            /\ \A j \in 1..(i - 1) : debuffs[j].debuff_type # debuff_type
    ELSE 0

\* mutant of add_debuff: the debuff is appended whether or not its type is present
add_debuff_append(debuffs, debuff, time) == Append(debuffs, debuff)
\* EnemyStat.add_debuff: active_debuffs after it
add_debuff(debuffs, debuff, time) ==
    LET existing == get_debuff_by_type(debuffs, debuff.debuff_type)
    IN  IF existing # 0
        THEN IF debuff.debuff_refresh_type = REFRESH
             THEN [debuffs EXCEPT ![existing] = refresh(debuffs[existing], time)]
             ELSE debuffs
        ELSE Append(debuffs, debuff)

\* Debuff.__eq__ of the dataclass: the fields are compared; strip_stage is a class
\* attribute without annotation and no field
debuff_eq(a, b) == [a EXCEPT !.strip_stage = 0] = [b EXCEPT !.strip_stage = 0]

\* EnemyStat.remove_debuff: active_debuffs after it (list.remove drops the first
\* element equal to the debuff)
remove_debuff(debuffs, debuff) ==
    IF \E i \in 1..Len(debuffs) : debuff_eq(debuffs[i], debuff)
    THEN LET first == CHOOSE i \in 1..Len(debuffs) :
                         /\ debuff_eq(debuffs[i], debuff)
                         /\ \A j \in 1..(i - 1) : ~debuff_eq(debuffs[j], debuff)
         IN  SubSeq(debuffs, 1, first - 1) \o SubSeq(debuffs, first + 1, Len(debuffs))
    ELSE debuffs

\* EnemyStat.apply_armor_strip(amount): current_armor after it,
\* max(0.0, current_armor - amount)
apply_armor_strip(current_armor, amount) ==
    LET left == FSub(current_armor, amount)
    IN  IF FLt(FZero, left) THEN left ELSE FZero

\* len(enemy_stat.dot_state.active_dots.get(DotType.HEAT, [])) > 0
has_heat(dots) == "heat" \in DOMAIN dots /\ Len(dots["heat"]) > 0

\* mutant of should_expire: the debuff expires as soon as no heat DOT is left
should_expire_without_heat(debuff, enemy, time) ==
    "heat" \notin DOMAIN enemy.active_dots
\* HeatArmorStripDebuff.should_expire: active_dots.get(DotType.HEAT, 0) == 0 holds
\* when the key is absent (a list never equals 0)
should_expire(debuff, enemy, time) ==
    "heat" \notin DOMAIN enemy.active_dots /\ debuff.strip_stage = 0

\* mutant of stage_armor: the strip is taken off the armor left, not off the base
stage_armor_compound(enemy, stage) ==
    FMul(enemy.current_armor, FSub(FOne, STRIP_PERCENTAGES[stage + 1]))
\* enemy_stat.base_armor * (1.0 - strip_percentage) for the stage
stage_armor(enemy, stage) ==
    FMul(enemy.base_armor, FSub(FOne, STRIP_PERCENTAGES[stage + 1]))

\* the enemy with the debuff at index i replaced and the armor set
with_debuff(enemy, i, debuff, armor) ==
    [enemy EXCEPT !.active_debuffs[i] = debuff, !.current_armor = armor]

\* HeatArmorStripDebuff._apply_strip on the debuff at index i
apply_strip(enemy, i, time) ==
    LET debuff == enemy.active_debuffs[i]
        stage == debuff.strip_stage + 1
    IN  IF debuff.strip_stage >= Len(STRIP_PERCENTAGES) - 1 THEN enemy
        ELSE IF FLt(FSub(time, debuff.last_tick_time), STRIP_INTERVAL) THEN enemy
        ELSE with_debuff(enemy, i,
                         [debuff EXCEPT !.strip_stage = stage, !.last_tick_time = time],
                         stage_armor(enemy, stage))

\* HeatArmorStripDebuff._apply_recovery on the debuff at index i
apply_recovery(enemy, i, time) ==
    LET debuff == enemy.active_debuffs[i]
        stage == debuff.strip_stage - 1
    IN  IF debuff.strip_stage = 0 THEN enemy
        ELSE IF FLt(debuff.last_recovery_tick, FZero)
        THEN with_debuff(enemy, i, [debuff EXCEPT !.last_recovery_tick = time],
                         enemy.current_armor)
        ELSE IF FLt(FSub(time, debuff.last_tick_time), RECOVERY_INTERVAL) THEN enemy
        ELSE with_debuff(enemy, i,
                         [debuff EXCEPT !.strip_stage = stage, !.last_tick_time = time],
                         stage_armor(enemy, stage))

\* HeatArmorStripDebuff.tick on the debuff at index i
tick(enemy, i, time) ==
    IF has_heat(enemy.active_dots) THEN apply_strip(enemy, i, time)
    ELSE apply_recovery(enemy, i, time)

\* DebuffManager.update_debuffs, first loop from index i on: the enemy after the ticks
\* and the indices of debuffs_to_remove
RECURSIVE update_loop(_, _, _)
update_loop(enemy, i, time) ==
    IF i > Len(enemy.active_debuffs) THEN [enemy |-> enemy, remove |-> {}]
    ELSE IF should_expire(enemy.active_debuffs[i], enemy, time)
    THEN LET rest == update_loop(enemy, i + 1, time)
         IN  [rest EXCEPT !.remove = rest.remove \cup {i}]
    ELSE update_loop(tick(enemy, i, time), i + 1, time)

\* DebuffManager.update_debuffs: the enemy after it; second loop: remove_debuff of every
\* debuff marked by the first loop, in the order they were marked
update_debuffs(enemy, time) ==
    LET done == update_loop(enemy, 1, time)
        marked == done.enemy.active_debuffs
        RECURSIVE Removed(_, _)
        Removed(debuffs, i) ==
            IF i > Len(marked) THEN debuffs
            ELSE Removed(IF i \in done.remove THEN remove_debuff(debuffs, marked[i])
                         ELSE debuffs, i + 1)
    IN  [done.enemy EXCEPT !.active_debuffs = Removed(marked, 1)]

(***************************************************************************)
(* State.                                                                  *)
(***************************************************************************)
VARIABLES
    active_dots,    \* DotState.active_dots (enemy_stat.dot_state)
    damage_dealt,   \* value returned by the last DotState.tick_all call
    prev_dots,      \* history: active_dots when the last operation began
    last,           \* history: the last operation and its arguments
    calc_pc,        \* position of the calculation request: "args", "constructed", "calculated", ...
    calc_args,      \* arguments of DamageCalculator(...)
    calculator,     \* the DamageCalculator object after __init__
    result,         \* the values the calc_* methods returned
    sim_pc,         \* position of simulate_combat: "ready", "loop", "done"
    sim_args,       \* arguments of simulate_combat_multiple: duration, time_step,
                    \* num_simulations
    time_elapsed,   \* simulate_combat locals
    shot_timer,
    shots_fired,
    total_direct_damage,
    total_dot_damage,
    proc_counts,
    procs_rolled,   \* history: procs rolled per element since simulate_combat began
    steps_done,     \* history: passes of the outer while since simulate_combat began
    draws,          \* history: what each shot rolled since simulate_combat began
    sim_result,     \* the dict simulate_combat returned
    runs,           \* history: the draws and the result of every finished run
    current_time,   \* the clock handed to add_debuff and update_debuffs
    base_armor,     \* EnemyStat.base_armor
    current_armor,  \* EnemyStat.current_armor
    active_debuffs, \* EnemyStat.active_debuffs
    heat_since,     \* history: the time since which heat DOTs are present, or absent
    added_at,       \* history: the time the debuff now on the enemy was appended
    stage_log       \* history: the times of the last increment and decrement of the stage

dot_vars  == <<active_dots, damage_dealt, prev_dots, last>>
calc_vars == <<calc_pc, calc_args, calculator, result>>
sim_locals == <<time_elapsed, shot_timer, shots_fired, total_direct_damage,
                total_dot_damage, proc_counts, procs_rolled, steps_done, draws>>
sim_vars  == <<sim_pc, sim_args, sim_locals, sim_result, runs>>
debuff_vars == <<current_time, base_armor, current_armor, active_debuffs,
                 heat_since, added_at, stage_log>>
vars == <<dot_vars, calc_vars, sim_vars, debuff_vars>>

\* value of a variable the running specification does not use
NoValue == [none |-> TRUE]

DotIdle ==
    /\ active_dots = EmptyDots
    /\ damage_dealt = EmptyDots
    /\ prev_dots = EmptyDots
    /\ last = [op |-> "init"]

CalcIdle ==
    /\ calc_pc = "off"
    /\ calc_args = NoValue
    /\ calculator = NoValue
    /\ result = NoValue

SimIdle ==
    /\ sim_pc = "off"
    /\ sim_args = NoValue
    /\ time_elapsed = NoValue
    /\ shot_timer = NoValue
    /\ shots_fired = NoValue
    /\ total_direct_damage = NoValue
    /\ total_dot_damage = NoValue
    /\ proc_counts = NoValue
    /\ procs_rolled = NoValue
    /\ steps_done = NoValue
    /\ draws = NoValue
    /\ sim_result = NoValue
    /\ runs = NoValue

DebuffIdle ==
    /\ current_time = NoValue
    /\ base_armor = NoValue
    /\ current_armor = NoValue
    /\ active_debuffs = NoValue
    /\ heat_since = NoValue
    /\ added_at = NoValue
    /\ stage_log = NoValue

(***************************************************************************)
(* Specification Spec: the DotState machine driven by status procs         *)
(* (DamageCalculator.apply_status_proc -> DotConfig.create_instance ->     *)
(* DotState.add_dot), by DotState.tick_all and by DotState.clear_all.      *)
(***************************************************************************)
\* bounds
MaxStacks == 2
MaxDelta  == 3

\* proc damages handed to create_instance
BaseDamages == {Rat(1, 1), Rat(2, 1)}
\* tick deltas (simulate_combat's time_step), in seconds
Deltas == {Rat(k, 1) : k \in 1..MaxDelta}

TotalStacks(dots) ==
    LET RECURSIVE Cnt(_)
        Cnt(S) == IF S = {} THEN 0
                  ELSE LET t == CHOOSE x \in S : TRUE IN Len(dots[t]) + Cnt(S \ {t})
    IN  Cnt(DOMAIN dots)

\* the calculator whose procs drive the machine: a heat modifier and a faction bonus
\* against an enemy of that faction
ProcCalculators ==
    {DamageCalculator(WeaponStat, StaticBuff,
                      NewInGameBuff("elements" :> Elements("heat" :> One)
                                    @@ "faction" :> ("grineer" :> Rat(1, 2))),
                      get_enemy_stat("Grineer", "none"), <<>>)}

\* elements that procced: every DOT element and one without a DOT
ProcElements == DOMAIN DOT_CONFIG_MAP \cup {"impact"}

Init ==
    /\ DotIdle
    /\ calc_pc = "constructed"
    /\ calc_args = NoValue
    /\ calculator \in ProcCalculators
    /\ result = NoValue
    /\ SimIdle
    /\ DebuffIdle

\* DamageCalculator.apply_status_proc(element, base_damage): proc_damage from the
\* calculator's elemental modifier and faction multiplier, config.create_instance and
\* dot_state.add_dot (add_dot returns None: no damage_dealt is pending after it); an
\* element without a DOT returns at once
AddDot(element, base_damage) ==
    /\ TotalStacks(active_dots) < MaxStacks
    /\ IF element \notin DOMAIN DOT_CONFIG_MAP
       THEN UNCHANGED dot_vars
       ELSE /\ active_dots' = apply_status_proc(calculator, active_dots, element, base_damage)
            /\ last' = [op |-> "add_dot", behavior |-> DOT_CONFIG_MAP[element].behavior,
                        instance |-> create_instance(DOT_CONFIG_MAP[element],
                                                     proc_damage(calculator, element, base_damage))]
            /\ prev_dots' = active_dots
            /\ damage_dealt' = EmptyDots
    /\ UNCHANGED <<calc_vars, sim_vars, debuff_vars>>

\* DotState.tick_all(delta_time)
TickAll(delta_time) ==
    /\ active_dots' = tick_all_dots(active_dots, delta_time)
    /\ damage_dealt' = tick_all_damage(active_dots, delta_time)
    /\ prev_dots' = active_dots
    /\ last' = [op |-> "tick_all", delta_time |-> delta_time]
    /\ UNCHANGED <<calc_vars, sim_vars, debuff_vars>>

\* DotState.clear_all()
ClearAll ==
    /\ active_dots' = EmptyDots
    /\ damage_dealt' = EmptyDots
    /\ prev_dots' = active_dots
    /\ last' = [op |-> "clear_all"]
    /\ UNCHANGED <<calc_vars, sim_vars, debuff_vars>>

Next ==
    \/ \E element \in ProcElements, base_damage \in BaseDamages :
          AddDot(element, base_damage)
    \/ \E delta_time \in Deltas : TickAll(delta_time)
    \/ ClearAll

Spec == Init /\ [][Next]_vars

(***************************************************************************)
(* Claims about the DotState machine (checked under Spec).                 *)
(***************************************************************************)
\* the damage tick_all reports for a type; a type missing from the returned dict
\* contributes nothing to the caller's totals
ReportedDamage(t) == IF t \in DOMAIN damage_dealt THEN damage_dealt[t] ELSE Zero

\* sum of d * tick_rate * damage_per_tick over the given instances
DueDamage(instances, d) ==
    RSumSeq([i \in 1..Len(instances) |->
                RMul(RMul(d, instances[i].tick_rate), instances[i].damage_per_tick)])

\* C1: after a tick_all of delta d > 0 the damage reported for every element type
\* equals the sum of d * tick_rate * damage_per_tick over the instances of that type
\* that were active when the tick began, also when they all expire in that tick.
C1_TickReportsAllDamage ==
    last.op = "tick_all" =>
        \A t \in DOMAIN prev_dots :
            ReportedDamage(t) = DueDamage(prev_dots[t], last.delta_time)

\* C9: every element type present in DotState maps to a non-empty list whose
\* instances all have remaining duration > 0 and are stored under their own type.
C9_DotStateWellFormed ==
    \A t \in DOMAIN active_dots :
        /\ active_dots[t] # <<>>
        /\ \A i \in 1..Len(active_dots[t]) :
              /\ RLt(Zero, active_dots[t][i].remaining_duration)
              /\ active_dots[t][i].dot_type = t

\* C9 witness: a tick removed a type whose last instance expired while another
\* type stays with a still running instance.
C9_Witness ==
    /\ last.op = "tick_all"
    /\ \E t \in DOMAIN prev_dots : t \notin DOMAIN active_dots
    /\ \E t \in DOMAIN active_dots : Len(active_dots[t]) >= 1

HeatBefore == IF "heat" \in DOMAIN prev_dots THEN prev_dots["heat"] ELSE <<>>

\* C10: after a refresh-all (heat) proc the heat list has grown by exactly one, every
\* heat instance has remaining duration = the new instance's total duration, and the
\* damage-per-tick of the already existing instances is unchanged.
C10_HeatRefreshAll ==
    (last.op = "add_dot" /\ last.behavior = REFRESH_ALL) =>
        /\ "heat" \in DOMAIN active_dots
        /\ Len(active_dots["heat"]) = Len(HeatBefore) + 1
        /\ active_dots["heat"][Len(active_dots["heat"])] = last.instance
        /\ \A i \in 1..Len(active_dots["heat"]) :
              active_dots["heat"][i].remaining_duration = last.instance.total_duration
        /\ \A i \in 1..Len(HeatBefore) :
              active_dots["heat"][i].damage_per_tick = HeatBefore[i].damage_per_tick

\* C10 witness: a heat proc arrived while an older heat instance with another
\* damage-per-tick had already run down part of its duration.
C10_Witness ==
    /\ last.op = "add_dot" /\ last.behavior = REFRESH_ALL
    /\ \E i \in 1..Len(HeatBefore) :
          /\ RLt(HeatBefore[i].remaining_duration, last.instance.total_duration)
          /\ HeatBefore[i].damage_per_tick # last.instance.damage_per_tick

\* the instances of a type before the last operation
InstancesBefore(t) == IF t \in DOMAIN prev_dots THEN prev_dots[t] ELSE <<>>

\* the instances of a type now
InstancesNow(t) == IF t \in DOMAIN active_dots THEN active_dots[t] ELSE <<>>

\* the instances whose remaining duration stays > 0 after delta, each with its own
\* countdown reduced by delta
Survivors(instances, delta) ==
    LET alive == SelectSeq(instances, LAMBDA inst : RLt(delta, inst.remaining_duration))
    IN  [i \in 1..Len(alive) |->
            [alive[i] EXCEPT !.remaining_duration = RSub(alive[i].remaining_duration, delta)]]

\* C11: an independent-behavior proc (toxin, slash, electricity, gas) appends exactly
\* one instance and leaves every existing instance of that type and of every other
\* type unchanged; a tick removes exactly the instances whose own remaining duration
\* drops to <= 0 and leaves the others with their own countdown.
C11_IndependentProcs ==
    /\ (last.op = "add_dot" /\ last.behavior = INDEPENDENT) =>
          /\ last.instance.dot_type \in {"toxin", "slash", "electricity", "gas"}
          /\ InstancesNow(last.instance.dot_type) =
                Append(InstancesBefore(last.instance.dot_type), last.instance)
          /\ \A t \in DotType \ {last.instance.dot_type} :
                InstancesNow(t) = InstancesBefore(t)
    /\ last.op = "tick_all" =>
          \A t \in DotType : InstancesNow(t) = Survivors(InstancesBefore(t), last.delta_time)

\* C11 witness: two instances of an independent type ran on different countdowns and
\* the tick removed the older one only.
C11_Witness ==
    /\ last.op = "tick_all"
    /\ \E t \in {"toxin", "slash", "electricity", "gas"} :
          /\ Len(InstancesBefore(t)) = 2
          /\ RLt(InstancesBefore(t)[1].remaining_duration,
                 InstancesBefore(t)[2].remaining_duration)
          /\ Len(InstancesNow(t)) = 1
          /\ InstancesNow(t)[1].damage_per_tick = InstancesBefore(t)[2].damage_per_tick

(***************************************************************************)
(* Specification SpecCalc: one calculation request (app.py calculate):     *)
(* DamageCalculator(...) is constructed from the arguments, then           *)
(* calc_single_hit, calc_direct_dps, calc_dots and calc_elem are called.   *)
(* All inputs are non-negative.                                            *)
(***************************************************************************)
\* bound: number of callbacks attached to a bundle
MaxCallbacks == 2

Args(weapon_stat, static_buff, in_game_buff, enemy_stat, element_order) ==
    [weapon_stat |-> weapon_stat, static_buff |-> static_buff, in_game_buff |-> in_game_buff,
     enemy_stat |-> enemy_stat, element_order |-> element_order]

Halves  == {Zero, Rat(1, 2), One, Rat(2, 1)}
ZeroOne == {Zero, One}

\* critical-hit inputs against both target types
CritArgs ==
    {Args(NewWeaponStat("critical_chance" :> cc @@ "critical_damage" :> cd),
          StaticBuff,
          NewInGameBuff("critical_chance" :> bcc @@ "critical_damage" :> bcd
                        @@ "final_additive_cd" :> facd),
          get_enemy_stat("none", type), <<>>) :
        cc \in Halves, cd \in Halves, bcc \in ZeroOne, bcd \in ZeroOne, facd \in ZeroOne,
        type \in EnemyType}

\* weapon element vectors handed to WeaponStat(elements=...)
WeaponElementChoices ==
    {Elements("impact" :> One), Elements("heat" :> One),
     Elements("heat" :> One @@ "toxin" :> One), Elements("radiation" :> One),
     Elements("cold" :> One @@ "impact" :> One)}

\* modifier element vectors
BuffElementChoices ==
    {NoElements, Elements("heat" :> One), Elements("toxin" :> One @@ "cold" :> Rat(1, 2)),
     Elements("radiation" :> Rat(1, 2) @@ "heat_standalone" :> One)}

ElementOrders == {<<>>, <<"heat", "toxin">>, <<"toxin", "cold", "heat">>}

\* weapons: built by the constructor, or with the elements field assigned afterwards
\* (damage_calculator.py:597-604 assigns weapon.elements = Elements(impact=1) this way;
\* the field is a plain mutable attribute, so the same assignment can store Elements())
ElementWeapons ==
    {NewWeaponStat("status_chance" :> sc @@ "elements" :> el) :
        sc \in {Zero, Rat(1, 2), Rat(3, 2)}, el \in WeaponElementChoices}
    \cup {[NewWeaponStat("status_chance" :> sc) EXCEPT !.elements = NoElements] :
        sc \in {Zero, Rat(1, 2)}}

\* elemental inputs against every modelled faction and type
ElemArgs ==
    {Args(w, StaticBuff, NewInGameBuff("elements" :> bel),
          get_enemy_stat(faction, type), order) :
        w \in ElementWeapons, bel \in BuffElementChoices,
        faction \in {"none", "grineer", "sentient"}, type \in EnemyType,
        order \in ElementOrders}

\* enemy names as a request spells them: capitals, mixed case, and names of no member
EnemyArgs ==
    {Args(NewWeaponStat("status_chance" :> Rat(1, 2)
                        @@ "elements" :> Elements("impact" :> One @@ "radiation" :> One)),
          StaticBuff, InGameBuff, get_enemy_stat(faction, type), <<>>) :
        faction \in {"Grineer", "GRINEER", "gRineer", "Corpus", "bogus"},
        type \in {"Tridolon", "TRIDOLON", "triDolon", "bogus"}}

\* inputs of the DOT formula
DotArgs ==
    {Args(NewWeaponStat("damage" :> dmg @@ "attack_speed" :> as @@ "multishot" :> ms
                        @@ "critical_chance" :> cc @@ "critical_damage" :> Rat(2, 1)
                        @@ "status_chance" :> sc @@ "elements" :> el),
          NewStaticBuff("damage" :> bdmg),
          NewInGameBuff("faction" :> fb @@ "final_multiplier" :> fm @@ "elements" :> bel),
          get_enemy_stat(faction, "none"), <<>>) :
        dmg \in {One, Rat(2, 1)}, as \in {One, Rat(3, 2)}, ms \in {One, Rat(2, 1)},
        cc \in ZeroOne, sc \in {Rat(1, 2), One},
        el \in {Elements("heat" :> One), Elements("heat" :> One @@ "slash" :> One)},
        bdmg \in ZeroOne, fb \in {NoFaction, "grineer" :> Rat(1, 2)},
        fm \in {One, Rat(2, 1)}, bel \in {NoElements, Elements("heat" :> One)},
        faction \in {"none", "grineer"}}

\* the callbacks attached: those that read declared fields, and two that do not
CallbackNames ==
    {"galvanized_shot", "galvanized_diffusion", "galvanized_aptitude", "secondary_enervate",
     "condition_overload", "secondary_outburst", "blood_rush"}

\* callback lists: the attached callbacks in every order, none twice
CallbackLists ==
    {cbs \in UNION {[1..n -> CallbackNames] : n \in 0..MaxCallbacks} :
        \A i, j \in DOMAIN cbs : i # j => cbs[i] # cbs[j]}

CallbackArgs ==
    {Args(NewWeaponStat("critical_chance" :> Rat(1, 2) @@ "critical_damage" :> Rat(2, 1)),
          NewStaticBuff("damage" :> sdmg),
          NewInGameBuff("callbacks" :> cbs @@ "galvanized_shot" :> gs @@ "num_debuffs" :> nd
                        @@ "critical_chance" :> bcc),
          get_enemy_stat("none", "none"), <<>>) :
        cbs \in CallbackLists, sdmg \in ZeroOne, gs \in {Zero, Rat(2, 1)},
        nd \in {Zero, Rat(3, 1)}, bcc \in ZeroOne}

\* the scenario weapon (damage 1, critical chance 0.31, critical damage 4.2, status
\* chance 0.43, pure impact, no modifier) at several attack rates and multishots
ScenarioWeapon(attack_speed, multishot) ==
    NewWeaponStat("damage" :> One @@ "attack_speed" :> attack_speed
                  @@ "multishot" :> multishot @@ "critical_chance" :> Rat(31, 100)
                  @@ "critical_damage" :> Rat(42, 10) @@ "status_chance" :> Rat(43, 100)
                  @@ "elements" :> Elements("impact" :> One))

ScenarioArgs ==
    {Args(ScenarioWeapon(as, ms), StaticBuff, InGameBuff, get_enemy_stat("none", type), <<>>) :
        as \in {One, Rat(3, 2)}, ms \in {One, Rat(2, 1)}, type \in EnemyType}

\* bundles to merge: scalars, faction maps (shared and unique keys) and elemental
\* vectors on both sides
MergeArgs ==
    {Args(WeaponStat,
          NewStaticBuff("damage" :> sdmg @@ "critical_chance" :> One @@ "faction" :> sf
                        @@ "elements" :> sel),
          NewInGameBuff("damage" :> bdmg @@ "multishot" :> Rat(1, 2) @@ "faction" :> bf
                        @@ "elements" :> bel @@ "num_debuffs" :> Rat(3, 1)
                        @@ "final_multiplier" :> Rat(2, 1)),
          get_enemy_stat("grineer", "none"), <<>>) :
        sdmg \in {Zero, Rat(2, 1)}, bdmg \in ZeroOne,
        sf \in {NoFaction, "grineer" :> Rat(1, 4) @@ "corpus" :> One},
        bf \in {NoFaction, "grineer" :> Rat(1, 2) @@ "infested" :> One},
        sel \in {NoElements, Elements("heat" :> Rat(1, 2) @@ "toxin" :> One)},
        bel \in {NoElements, Elements("heat" :> One @@ "cold" :> Rat(1, 2))}}

\* application orders: duplicates, names that are no basic element, an odd and an even
\* number of basic elements
CombineOrders ==
    {<<"heat", "heat", "toxin">>, <<"impact", "heat", "bogus", "cold">>,
     <<"cold", "electricity", "heat", "toxin">>, <<"toxin", "cold", "toxin", "electricity">>,
     <<"electricity">>, <<"viral", "slash">>}

\* vectors to combine: the weapon's share plus modifier values, with and without
\* standalone components
CombineArgs ==
    {Args(NewWeaponStat("elements" :> wel), StaticBuff, NewInGameBuff("elements" :> bel),
          get_enemy_stat("none", "none"), order) :
        wel \in {Elements("impact" :> One), Elements("heat" :> One @@ "toxin" :> One)},
        bel \in {Elements("heat" :> One @@ "cold" :> Rat(1, 2) @@ "viral" :> One),
                 Elements("cold" :> One @@ "electricity" :> Rat(2, 1) @@ "heat" :> Rat(3, 1)
                          @@ "toxin" :> Rat(4, 1) @@ "gas" :> One),
                 Elements("toxin" :> One @@ "heat_standalone" :> One
                          @@ "cold_standalone" :> Rat(1, 2))},
        order \in CombineOrders}

CalcInit ==
    /\ DotIdle
    /\ SimIdle
    /\ calc_pc = "args"
    /\ calc_args \in CritArgs \cup ElemArgs \cup EnemyArgs \cup DotArgs \cup CallbackArgs
                    \cup ScenarioArgs \cup MergeArgs \cup CombineArgs
    /\ calculator = NoValue
    /\ result = NoValue
    /\ DebuffIdle

\* calculator = DamageCalculator(weapon_stat, static_buff, in_game_buff, enemy_stat,
\* element_order); when __init__ raises no calculator exists and the request ends
Construct ==
    /\ calc_pc = "args"
    /\ \E made \in {DamageCalculator(calc_args.weapon_stat, calc_args.static_buff,
                                      calc_args.in_game_buff, calc_args.enemy_stat,
                                      calc_args.element_order)} :
          /\ calculator' = made
          /\ calc_pc' = IF made = AttributeError THEN "init_raised" ELSE "constructed"
    /\ UNCHANGED <<calc_args, result>>
    /\ UNCHANGED <<dot_vars, sim_vars, debuff_vars>>

\* the calc_* calls of one request, in sequence: single_hit, direct_dps, dots_dps,
\* elem_total; when calc_dots raises, the block ends with single_hit and direct_dps
\* assigned and the request goes to its except handler
Calculate ==
    /\ calc_pc = "constructed"
    /\ \E dots_dps \in {calc_dots(calculator)} :
          IF dots_dps = ZeroDivisionError
          THEN /\ result' = [single_hit |-> calc_single_hit(calculator),
                             direct_dps |-> calc_direct_dps(calculator),
                             raised     |-> ZeroDivisionError]
               /\ calc_pc' = "calc_raised"
          ELSE /\ result' = [single_hit |-> calc_single_hit(calculator),
                             direct_dps |-> calc_direct_dps(calculator),
                             dots_dps   |-> dots_dps,
                             elem_total |-> calc_elem(calculator)]
               /\ calc_pc' = "calculated"
    /\ UNCHANGED <<calc_args, calculator>>
    /\ UNCHANGED <<dot_vars, sim_vars, debuff_vars>>

\* calculator.calc_dot(element) called on its own: the value returned, or the
\* ZeroDivisionError raised
CalcDot(element) ==
    /\ calc_pc = "constructed"
    /\ result' = [element |-> element, dot |-> calc_dot(calculator, element)]
    /\ calc_pc' = "dot_called"
    /\ UNCHANGED <<calc_args, calculator>>
    /\ UNCHANGED <<dot_vars, sim_vars, debuff_vars>>

\* calculator.combined_elements.combine_elements(element_order) called a second time on
\* the vector the constructor combined; result keeps the vector as it was before the call
CombineAgain ==
    /\ calc_pc = "calculated"
    /\ calc_args.element_order # <<>>
    /\ calculator' = [calculator EXCEPT !.combined_elements =
                          combine_elements(@, calc_args.element_order)]
    /\ result' = [combined_before |-> calculator.combined_elements]
    /\ calc_pc' = "combined_again"
    /\ UNCHANGED calc_args
    /\ UNCHANGED <<dot_vars, sim_vars, debuff_vars>>

CalcNext ==
    \/ Construct
    \/ Calculate
    \/ \E element \in CalcDotsElements : CalcDot(element)
    \/ CombineAgain

SpecCalc == CalcInit /\ [][CalcNext]_vars


(***************************************************************************)
(* Claims about the closed-form calculation (checked under SpecCalc).      *)
(***************************************************************************)
\* the callbacks of the merged bundle, priority group 0 before priority group 1,
\* attach order kept inside a group
by_priority(callbacks) ==
    SelectSeq(callbacks, LAMBDA name : CALLBACK_MAPPING[name].priority_group = 0)
    \o SelectSeq(callbacks, LAMBDA name : CALLBACK_MAPPING[name].priority_group = 1)

MergedBundle == add_bundles(calc_args.in_game_buff, calc_args.static_buff)

\* C3: after the merge the callbacks are applied in ascending priority order (group 0
\* before group 1) whatever order they were attached in, and the bundle resolves to
\* the field values of that priority-ordered application.
C3_CallbacksInPriorityOrder ==
    calc_pc \notin {"args", "init_raised"} =>
        /\ \A i, j \in 1..Len(calculator.callbacks_called) :
              i < j => CALLBACK_MAPPING[calculator.callbacks_called[i]].priority_group
                        <= CALLBACK_MAPPING[calculator.callbacks_called[j]].priority_group
        /\ calculator.final_buff =
              apply_callbacks(MergedBundle, by_priority(callbacks_called(MergedBundle.callbacks)))

\* the combined vector with radiation and cold scaled by 1.5
BossScaled(elements) ==
    [elements EXCEPT !["radiation"] = RMul(@, Rat(3, 2)), !["cold"] = RMul(@, Rat(3, 2))]

\* C4: for a Tridolon target the elemental multiplier is the vulnerability-weighted
\* sum of the combined vector with radiation and cold additionally multiplied by 1.5;
\* for any other target type it is the plain vulnerability-weighted sum.
C4_BossElementalMultiplier ==
    calc_pc = "calculated" =>
        result.elem_total =
            total_with_vulnerability(
                IF calculator.enemy_stat.type = TRIDOLON
                THEN BossScaled(calculator.combined_elements)
                ELSE calculator.combined_elements,
                calculator.enemy_stat.elements_vulnerability)

\* the element's share of the combined elemental total (total # 0)
ElementShare(self, element) ==
    RDiv(get_element(self.combined_elements, element), total(self.combined_elements))

\* C5 as stated: for each element calc_dot returns 0.5 * (weapon.damage * base * faction
\* * final_multiplier) * (uncombined modifier value of the element + 1) * (status chance
\* * the element's share of the combined total) * attack rate * multishot: faction
\* enters once, the critical multiplier does not enter.
C5_DotFormulaAsStated ==
    (calc_pc = "dot_called" /\ total(calculator.combined_elements) # Zero) =>
        result.dot =
            RProdSeq(<<Rat(1, 2),
                       calculator.weapon_stat.damage, get_base(calculator),
                       get_faction(calculator), calculator.in_game_buff.final_multiplier,
                       RAdd(get_element(calculator.final_buff.elements, result.element), One),
                       get_sc(calculator), ElementShare(calculator, result.element),
                       get_as(calculator), get_ms(calculator)>>)

\* C5 amended: for each element calc_dot returns 0.5 * (weapon.damage * base * critical
\* multiplier * faction * final_multiplier) * (uncombined modifier value of the element
\* + 1) * faction * (status chance * the element's share of the combined total) *
\* attack rate * multishot: the critical multiplier enters once and the faction
\* multiplier twice.
C5_DotFormula ==
    (calc_pc = "dot_called" /\ total(calculator.combined_elements) # Zero) =>
        result.dot =
            RProdSeq(<<Rat(1, 2),
                       calculator.weapon_stat.damage, get_base(calculator),
                       get_crit(calculator), get_faction(calculator),
                       calculator.in_game_buff.final_multiplier,
                       RAdd(get_element(calculator.final_buff.elements, result.element), One),
                       get_faction(calculator),
                       get_sc(calculator), ElementShare(calculator, result.element),
                       get_as(calculator), get_ms(calculator)>>)

\* C5 witness: a heat DOT was computed for a target with a faction bonus and a weapon
\* whose critical multiplier is not 1.
C5_Witness ==
    /\ calc_pc = "dot_called"
    /\ result.element = "heat"
    /\ RLt(One, get_faction(calculator))
    /\ RLt(One, get_crit(calculator))
    /\ RLt(Zero, get_element(calculator.final_buff.elements, "heat"))
    /\ total(calculator.combined_elements) # Zero
    /\ result.dot # ZeroDivisionError
    /\ RLt(Zero, result.dot)

\* C6: for all non-negative weapon and modifier inputs (critical damage below 1
\* included) single-hit damage, direct DPS and every per-element DOT DPS are >= 0.
C6_NonNegative ==
    /\ calc_pc \in {"calculated", "calc_raised"} =>
          /\ RLe(Zero, result.single_hit)
          /\ RLe(Zero, result.direct_dps)
    /\ (calc_pc = "dot_called" /\ result.dot # ZeroDivisionError) => RLe(Zero, result.dot)

\* C8: when the combined elemental vector sums to 0, _get_sc(element) yields a zero
\* contribution: calc_dot is 0 for every element and calc_dots raises no
\* ZeroDivisionError.
C8_ZeroTotalZeroContribution ==
    /\ (calc_pc = "dot_called" /\ total(calculator.combined_elements) = Zero) =>
          result.dot = Zero
    /\ calc_pc = "calc_raised" => total(calculator.combined_elements) # Zero

\* the value a dict holds for a key, 0 when the key is absent
ValueOf(dict, key) == IF key \in DOMAIN dict THEN dict[key] ELSE Zero

\* C24: merging bundle a (the in-game buffs) with bundle b (the static mods) yields, for
\* every scalar field of a, a.field + b.field when b has the field and a.field unchanged
\* when b lacks it, and for every map-valued field (faction bonus, elemental vector) the
\* key-wise sum on shared keys plus every key only one side has; neither a nor b is
\* modified by the merge.  The merged bundle is final_buff when no callback is attached.
C24_MergeBundles ==
    (calc_pc # "args" /\ calc_args.in_game_buff.callbacks = <<>>) =>
        LET a == calc_args.in_game_buff
            b == calc_args.static_buff
            merged == calculator.final_buff
        IN  /\ DOMAIN merged = DOMAIN a
            /\ \A f \in DOMAIN a \ {"faction", "elements"} :
                  merged[f] = IF f \in DOMAIN b THEN RAdd(a[f], b[f]) ELSE a[f]
            /\ DOMAIN merged.faction = DOMAIN a.faction \cup DOMAIN b.faction
            /\ \A k \in DOMAIN merged.faction :
                  merged.faction[k] = RAdd(ValueOf(a.faction, k), ValueOf(b.faction, k))
            /\ \A k \in ElementFields :
                  merged.elements[k] = RAdd(a.elements[k], b.elements[k])
            /\ calculator.in_game_buff = a
            /\ calculator.static_buff = b

\* C24 witness: two bundles were merged whose faction maps share a key and have a key
\* of their own each, with damage and heat on both sides.
C24_Witness ==
    /\ calc_pc = "constructed"
    /\ calc_args.in_game_buff.callbacks = <<>>
    /\ DOMAIN calc_args.in_game_buff.faction = {"grineer", "infested"}
    /\ DOMAIN calc_args.static_buff.faction = {"grineer", "corpus"}
    /\ calculator.final_buff.faction =
          ("grineer" :> Rat(3, 4) @@ "infested" :> One @@ "corpus" :> One)
    /\ calculator.final_buff.damage = Rat(3, 1)
    /\ calculator.final_buff.elements["heat"] = Rat(3, 2)
    /\ calculator.final_buff.final_multiplier = Rat(2, 1)

\* the basic elements
BasicElements == {"cold", "electricity", "heat", "toxin"}

\* the positions of an application order that count: the first occurrence of each basic
\* element
KeptPositions(order) ==
    {i \in 1..Len(order) :
        order[i] \in BasicElements /\ \A j \in 1..(i - 1) : order[j] # order[i]}

\* the number of kept positions up to position i
Rank(order, i) == Cardinality({j \in KeptPositions(order) : j <= i})

\* the pairs <<a, b>> of kept elements, two at a time in the order
Pairs(order) ==
    {<<order[p[1]], order[p[2]]>> :
        p \in {q \in KeptPositions(order) \X KeptPositions(order) :
                  Rank(order, q[1]) % 2 = 1 /\ Rank(order, q[2]) = Rank(order, q[1]) + 1}}

\* the vector the pairing gives: a paired element is 0, the compound of a pair gains the
\* two values, every other component keeps its value
Paired(self, order) ==
    [k \in ElementFields |->
        IF \E p \in Pairs(order) : k \in {p[1], p[2]} THEN Zero
        ELSE IF \E p \in Pairs(order) : ELEMENT_COMBINATION_MAP[p[1]][p[2]] = k
        THEN LET p == CHOOSE q \in Pairs(order) : ELEMENT_COMBINATION_MAP[q[1]][q[2]] = k
             IN  RAdd(RAdd(self[p[1]], self[p[2]]), self[k])
        ELSE self[k]]

\* the vector combine_elements is called on: modifier vector + weapon vector
Summed == add_elements(calculator.final_buff.elements, calc_args.weapon_stat.elements)

\* C25 as stated: combine_elements keeps only the first occurrence of each basic element
\* of the order, ignores every other name, and pairs the kept elements two at a time:
\* each pair (a, b) adds value(a) + value(b) to the compound of a and b and sets a and b
\* to 0; an unpaired last element and every element not named in the order keep their
\* values.
C25_CombineAsStated ==
    (calc_pc \in {"constructed", "calculated"} /\ calc_args.element_order # <<>>) =>
        calculator.combined_elements = Paired(Summed, calc_args.element_order)

\* C25 amended: combine_elements keeps only the first occurrence of each basic element of
\* the order, ignores every other name without error, and pairs the kept elements two at
\* a time: each pair (a, b) adds value(a) + value(b) to the compound of a and b and sets
\* a and b to 0; an unpaired last element and every element not named in the order keep
\* their values; after the pairing the standalone component of each basic element is
\* added to that element (paired or not) and set to 0.
C25_Combine ==
    (calc_pc \in {"constructed", "calculated"} /\ calc_args.element_order # <<>>) =>
        calculator.combined_elements =
            [k \in ElementFields |->
                IF k \in BasicElements
                THEN RAdd(Paired(Summed, calc_args.element_order)[k],
                          Summed[k \o "_standalone"])
                ELSE IF k \in {b \o "_standalone" : b \in BasicElements} THEN Zero
                ELSE Paired(Summed, calc_args.element_order)[k]]

\* C25 witness: an order with a duplicate and an odd number of basic elements, two of
\* them after a name that is no basic element, was applied to a vector with a standalone
\* heat component: heat and cold went into blast, the standalone heat is the heat left.
C25_Witness ==
    /\ calc_pc = "constructed"
    /\ calc_args.element_order = <<"impact", "heat", "bogus", "cold">>
    /\ RLt(Zero, Summed["heat_standalone"])
    /\ calculator.combined_elements["heat"] = Summed["heat_standalone"]
    /\ calculator.combined_elements["cold"] = Summed["cold_standalone"]
    /\ calculator.combined_elements["blast"] = RAdd(Summed["heat"], Summed["cold"])
    /\ calculator.combined_elements["impact"] = Summed["impact"]

\* C26: element combination is idempotent: calling combine_elements a second time with
\* the same application order on the already combined vector leaves every component
\* unchanged.
C26_CombineIdempotent ==
    calc_pc = "combined_again" =>
        \A k \in ElementFields :
            calculator.combined_elements[k] = result.combined_before[k]

\* the non-crit penalty of a boss-class target: 1 - (1 - critical_chance) * 0.5 when
\* critical_chance < 1, and 1 when critical_chance >= 1 or the target is no boss
NonCritPenalty(self) ==
    IF self.enemy_stat.type = TRIDOLON /\ RLt(get_cc(self), One)
    THEN RSub(One, RMul(RSub(One, get_cc(self)), Rat(1, 2)))
    ELSE One

\* C22: calc_direct_dps equals single-hit damage * attack rate * multishot, multiplied
\* for a boss-class target only by the non-crit penalty 1 - (1 - critical_chance) * 0.5
\* when critical_chance < 1 and by 1 when critical_chance >= 1; for the scenario weapon
\* at attack speed 1 and multishot 1 this is 1.992 against a non-boss target and
\* 1.992 * 0.655 against a boss-class target.
C22_DirectDps ==
    calc_pc = "calculated" =>
        /\ result.direct_dps =
              RProdSeq(<<result.single_hit, get_as(calculator), get_ms(calculator),
                         NonCritPenalty(calculator)>>)
        /\ calc_args.weapon_stat = ScenarioWeapon(One, One) =>
              result.direct_dps =
                  IF calc_args.enemy_stat.type = TRIDOLON
                  THEN RMul(Rat(1992, 1000), Rat(655, 1000))
                  ELSE Rat(1992, 1000)

\* C22 witness: the direct DPS of the scenario weapon against a boss-class target was
\* computed.
C22_Witness ==
    /\ calc_pc = "calculated"
    /\ calc_args.enemy_stat.type = TRIDOLON
    /\ calc_args.weapon_stat = ScenarioWeapon(One, One)
    /\ result.direct_dps = Rat(130476, 100000)

(***************************************************************************)
(* Specification SpecSim: DamageCalculator(...) is constructed and one     *)
(* simulate_combat(duration, time_step) run is made on it.                 *)
(***************************************************************************)
\* bounds: longest simulated duration, in seconds, and most runs of a batch
MaxDuration == 3
MaxRuns == 2

Durations == {Rat(k, 1) : k \in 1..MaxDuration}
\* time steps that are exact as floats, and one that is not
TimeSteps == {Rat(1, 2), One, Rat(2, 1)}
FineStep == Rat(1, 10)

SimWeapon(attack_speed, multishot, critical_chance, status_chance, elements) ==
    NewWeaponStat("damage" :> Rat(2, 1) @@ "attack_speed" :> attack_speed
                  @@ "multishot" :> multishot @@ "critical_chance" :> critical_chance
                  @@ "critical_damage" :> Rat(2, 1) @@ "status_chance" :> status_chance
                  @@ "elements" :> elements)

SimCalcArgs(weapon_stat) ==
    Args(weapon_stat, StaticBuff, InGameBuff, get_enemy_stat("none", "none"), <<>>)

\* weapons whose procs spread over several elements
ProcWeapons ==
    {SimWeapon(One, One, Zero, sc, el) :
        sc \in {Rat(1, 2), Rat(3, 2)},
        el \in {Elements("heat" :> One @@ "toxin" :> One),
                Elements("impact" :> One @@ "heat" :> One)}}

\* weapons with a fractional multishot or critical chance
PelletWeapons ==
    {SimWeapon(as, Rat(3, 2), Zero, One, Elements("heat" :> One)) : as \in {One, Rat(2, 1)}}
    \cup {SimWeapon(One, One, Rat(1, 2), One, Elements("slash" :> One))}

\* weapons of every attack rate, all rolls certain
RateWeapons ==
    {SimWeapon(as, One, Zero, sc, Elements("heat" :> One)) :
        as \in {Zero, Rat(1, 2), One, Rat(2, 1), Rat(3, 1)}, sc \in {Zero, One}}

\* weapons of the batches of several runs
BatchWeapons ==
    {w \in PelletWeapons \cup RateWeapons : RLe(w.attack_speed, One) /\ w.status_chance = One}

SimArgs(duration, time_step, num_simulations) ==
    [duration |-> duration, time_step |-> time_step, num_simulations |-> num_simulations]

\* the simulations made: a weapon and the arguments of simulate_combat_multiple.
\* The DOT amounts are kept exact, so a weapon that procs is run on exact time steps.
SimRuns ==
    {<<w, SimArgs(d, One, 1)>> : w \in ProcWeapons, d \in Durations}
    \cup {<<w, SimArgs(d, ts, 1)>> :
            w \in PelletWeapons \cup RateWeapons, d \in Durations, ts \in TimeSteps}
    \cup {<<w, SimArgs(d, FineStep, 1)>> :
            w \in {r \in RateWeapons : r.status_chance = Zero}, d \in Durations}
    \cup {<<w, SimArgs(d, One, n)>> : w \in BatchWeapons, d \in Durations, n \in 2..MaxRuns}

\* simulations with modifiers: an elemental modifier and a faction bonus against the
\* faction's enemy, procs of heat and slash, critical hits rolled
ModifierRuns ==
    {<<Args(SimWeapon(One, One, Rat(1, 2), One, Elements("heat" :> One @@ "slash" :> One)),
            StaticBuff,
            NewInGameBuff("elements" :> Elements("heat" :> One)
                          @@ "faction" :> ("grineer" :> Rat(1, 2))),
            get_enemy_stat("grineer", "none"), <<>>),
       SimArgs(d, One, 1)>> : d \in Durations}

\* simulations without a random roll (critical chance, multishot and status chance
\* without fractional part) against a non-boss and a boss-class target, single runs and
\* batches
CertainRuns ==
    {<<Args(SimWeapon(One, ms, cc, sc, Elements("heat" :> One)), StaticBuff, InGameBuff,
            get_enemy_stat("none", type), <<>>),
       SimArgs(d, One, n)>> :
        ms \in {One, Rat(2, 1)}, cc \in {Zero, One, Rat(2, 1)}, sc \in ZeroOne,
        type \in EnemyType, d \in Durations, n \in 1..MaxRuns}

SimInit ==
    /\ DotIdle
    /\ calc_pc = "args"
    /\ \/ \E run \in SimRuns : calc_args = SimCalcArgs(run[1]) /\ sim_args = run[2]
       \/ \E run \in ModifierRuns \cup CertainRuns : calc_args = run[1] /\ sim_args = run[2]
    /\ calculator = NoValue
    /\ result = NoValue
    /\ sim_pc = "ready"
    /\ time_elapsed = NoValue
    /\ shot_timer = NoValue
    /\ shots_fired = NoValue
    /\ total_direct_damage = NoValue
    /\ total_dot_damage = NoValue
    /\ proc_counts = NoValue
    /\ procs_rolled = NoValue
    /\ steps_done = NoValue
    /\ draws = NoValue
    /\ sim_result = NoValue
    /\ runs = <<>>
    /\ DebuffIdle

\* the float a duration or time step argument is
duration_float == FOfRat(sim_args.duration)
time_step_float == FOfRat(sim_args.time_step)

\* simulate_combat up to the outer while: _reset_simulation and the locals; the first
\* call, or the next call of simulate_combat_multiple's loop
SimulateCombat ==
    /\ calc_pc = "constructed"
    /\ \/ sim_pc = "ready"
       \/ sim_pc = "done" /\ Len(runs) < sim_args.num_simulations
    /\ active_dots' = reset_simulation(active_dots)
    /\ damage_dealt' = EmptyDots
    /\ prev_dots' = active_dots
    /\ last' = [op |-> "reset"]
    /\ total_direct_damage' = Zero
    /\ total_dot_damage' = [t \in DotType |-> Zero]
    /\ proc_counts' = [e \in {} |-> 0]
    /\ procs_rolled' = [e \in {} |-> 0]
    /\ steps_done' = 0
    /\ draws' = <<>>
    /\ time_elapsed' = FZero
    /\ shot_timer' = FZero
    /\ shots_fired' = 0
    /\ sim_pc' = "loop"
    /\ UNCHANGED <<debuff_vars, calc_vars, sim_args, sim_result, runs>>

\* sum of two count dicts
add_counts(a, b) ==
    [e \in (DOMAIN a) \cup (DOMAIN b) |->
        (IF e \in DOMAIN a THEN a[e] ELSE 0) + (IF e \in DOMAIN b THEN b[e] ELSE 0)]

\* one pass of the inner while: a shot whose _simulate_single_hit rolled `pellets`
Fire(pellets) ==
    /\ sim_pc = "loop"
    /\ FLt(time_elapsed, duration_float)
    /\ timer_due(shot_timer)
    /\ shots_fired' = shots_fired + 1
    /\ shot_timer' = timer_add(shot_timer, time_between_shots(calculator))
    /\ total_direct_damage' = RAdd(total_direct_damage, hit_damage(calculator, pellets))
    /\ proc_counts' = shot_proc_counts(proc_counts, hit_proc_counts(pellets))
    /\ procs_rolled' = add_counts(procs_rolled, hit_proc_counts(pellets))
    /\ draws' = Append(draws, pellets)
    /\ active_dots' = hit_dots(calculator, active_dots, pellets)
    /\ damage_dealt' = EmptyDots
    /\ prev_dots' = active_dots
    /\ last' = [op |-> "fire", pellets |-> pellets, time |-> time_elapsed]
    /\ UNCHANGED <<debuff_vars, calc_vars, sim_pc, sim_args, sim_result, runs,
                   time_elapsed, total_dot_damage, steps_done>>

\* the rest of the outer while body, with or without the inner while before it
TickStep ==
    /\ sim_pc = "loop"
    /\ FLt(time_elapsed, duration_float)
    /\ active_dots' = tick_all_dots(active_dots, sim_args.time_step)
    /\ damage_dealt' = tick_all_damage(active_dots, sim_args.time_step)
    /\ prev_dots' = active_dots
    /\ last' = [op |-> "tick_all", delta_time |-> sim_args.time_step]
    /\ total_dot_damage' =
          LET dot_damages == tick_all_damage(active_dots, sim_args.time_step)
          IN  [t \in DotType |->
                 IF t \in DOMAIN dot_damages
                 THEN RAdd(total_dot_damage[t], dot_damages[t]) ELSE total_dot_damage[t]]
    /\ time_elapsed' = FAdd(time_elapsed, time_step_float)
    /\ shot_timer' = timer_sub(shot_timer, time_step_float)
    /\ steps_done' = steps_done + 1
    /\ UNCHANGED <<debuff_vars, calc_vars, sim_pc, sim_args, sim_result, runs,
                   shots_fired, total_direct_damage, proc_counts, procs_rolled, draws>>

\* the rest of the outer while body once the inner while has fired every shot that is
\* due: tick the DOTs, advance time
TickEarly == TickStep
Tick == sim_pc = "loop" /\ ~timer_due(shot_timer) /\ TickStep

\* simulate_combat after the loop: the returned dict
simulate_combat_result ==
    LET filtered_dot_damage ==
            [t \in {k \in DotType : RLt(Zero, total_dot_damage[k])} |-> total_dot_damage[t]]
        total_dot == RSumOver(filtered_dot_damage, DOMAIN filtered_dot_damage)
        total_damage == RAdd(total_direct_damage, total_dot)
    IN  IF sim_args.duration = Zero \/ calc_dots(calculator) = ZeroDivisionError
        THEN ZeroDivisionError
        ELSE [single_hit          |-> calc_single_hit(calculator),
              direct_dps          |-> RDiv(total_direct_damage, sim_args.duration),
              theoretical_dot_dps |-> calc_dots(calculator),
              simulated_dot_dps   |-> RDiv(total_dot, sim_args.duration),
              total_dps           |-> RDiv(total_damage, sim_args.duration),
              total_direct_damage |-> total_direct_damage,
              total_dot_damage    |-> filtered_dot_damage,
              active_dot_stacks   |->
                  [t \in {k \in DotType : get_active_stacks(active_dots, k) > 0} |->
                      get_active_stacks(active_dots, t)],
              proc_counts         |-> proc_counts,
              shots_fired         |-> shots_fired,
              duration            |-> sim_args.duration]

\* the outer while ends (time_elapsed >= duration) and simulate_combat returns
Finish ==
    /\ sim_pc = "loop"
    /\ ~FLt(time_elapsed, duration_float)
    /\ sim_result' = simulate_combat_result
    /\ runs' = Append(runs, [draws |-> draws, result |-> simulate_combat_result])
    /\ sim_pc' = "done"
    /\ UNCHANGED <<debuff_vars, dot_vars, calc_vars, sim_args, sim_locals>>

\* simulate_combat_multiple: simulated_stats.direct_dps.avg of the runs made
direct_dps_avg ==
    RDiv(RSumSeq([i \in 1..Len(runs) |-> runs[i].result.direct_dps]), Rat(Len(runs), 1))

SimNext ==
    \/ Construct
    \/ SimulateCombat
    \/ \E pellets \in (IF sim_pc = "loop" THEN simulate_pellets(calculator) ELSE {}) :
          Fire(pellets)
    \/ Tick
    \/ Finish

SpecSim == SimInit /\ [][SimNext]_vars

(***************************************************************************)
(* Claims about one simulation run (checked under SpecSim).                *)
(***************************************************************************)
\* the count a dict of counts holds for an element (0 when the key is absent)
CountOf(counts, element) == IF element \in DOMAIN counts THEN counts[element] ELSE 0

\* C2: the proc counts returned by a simulation run equal, for each element, the total
\* number of status procs rolled for that element over all shots and pellets of the run.
C2_ProcCountsAreRunTotals ==
    (sim_pc = "done" /\ sim_result # ZeroDivisionError) =>
        \A e \in ElementFields :
            CountOf(sim_result.proc_counts, e) = CountOf(procs_rolled, e)

\* C7: when the resolved attack rate is 0 the inter-shot interval is infinite, no shot
\* is fired at any step, and the run reports direct damage and direct DPS 0 without
\* raising an error.
C7_ZeroAttackRateNoShot ==
    (sim_pc \in {"loop", "done"} /\ get_as(calculator) = Zero) =>
        /\ time_between_shots(calculator) = Inf
        /\ shots_fired = 0
        /\ total_direct_damage = Zero
        /\ sim_pc = "done" =>
              /\ sim_result # ZeroDivisionError
              /\ sim_result.total_direct_damage = Zero
              /\ sim_result.direct_dps = Zero

\* the instances of a type after the step being taken
InstancesNext(t) == IF t \in DOMAIN active_dots' THEN active_dots'[t] ELSE <<>>

\* an instance no tick has touched since it was created or refreshed
IsFresh(inst) == inst.remaining_duration = inst.total_duration

\* C12: within every simulation step the shots of that step are fired and their procs
\* inserted into DotState before the DOT tick of that step, and the clock advances only
\* after the tick: a shot leaves the clock and the DOT damage alone and inserts its
\* procs, the clock advances only in a move that is taken when no shot is due any more
\* and that ticks every instance then held by the full time step, so that an instance
\* created by a shot has received its first tick when the clock has moved.
C12_ShotsThenTickThenClock ==
    [][sim_pc = "loop" /\ sim_pc' = "loop" =>
          /\ shots_fired' # shots_fired =>
                /\ time_elapsed' = time_elapsed
                /\ steps_done' = steps_done
                /\ total_dot_damage' = total_dot_damage
                /\ active_dots' = hit_dots(calculator, active_dots, draws'[Len(draws')])
          /\ time_elapsed' # time_elapsed =>
                /\ ~timer_due(shot_timer)
                /\ steps_done' = steps_done + 1
                /\ \A t \in DotType :
                      /\ InstancesNext(t) = Survivors(InstancesNow(t), sim_args.time_step)
                      /\ \A i \in 1..Len(InstancesNext(t)) : ~IsFresh(InstancesNext(t)[i])
      ]_vars

\* C12 witness: a shot fired after the first step created an instance, and the tick of
\* the same step (the clock had not moved in between) was its first tick.
C12_Witness ==
    /\ sim_pc = "loop"
    /\ last.op = "tick_all"
    /\ steps_done >= 2
    /\ \E t \in DotType :
          /\ Len(InstancesBefore(t)) >= 2
          /\ IsFresh(InstancesBefore(t)[Len(InstancesBefore(t))])
          /\ Len(InstancesNow(t)) = Len(InstancesBefore(t))
          /\ InstancesNow(t)[Len(InstancesNow(t))].remaining_duration =
                RSub(InstancesNow(t)[Len(InstancesNow(t))].total_duration, last.delta_time)

\* ceil of a positive rational
RCeil(r) == (r.n + r.d - 1) \div r.d

\* C13: a run with time_step > 0 and a finite duration terminates after exactly
\* ceil(duration / time_step) steps, and every step, the last one included, ticks the
\* DOTs with the full time_step as delta.
C13_StepCount ==
    /\ (sim_pc = "done") => steps_done = RCeil(RDiv(sim_args.duration, sim_args.time_step))
    /\ (sim_pc \in {"loop", "done"} /\ last.op = "tick_all") =>
          last.delta_time = sim_args.time_step

\* what a run returned of its direct damage, DOT damage, proc counts and active stacks
RunOutput(run) ==
    IF run.result = ZeroDivisionError THEN run.result
    ELSE [total_direct_damage |-> run.result.total_direct_damage,
          total_dot_damage    |-> run.result.total_dot_damage,
          proc_counts         |-> run.result.proc_counts,
          active_dot_stacks   |-> run.result.active_dot_stacks]

\* C20: the rolls of the shots are the only thing a run draws (one source, the
\* generator of the random module, which random.seed seeds), and two runs of the same
\* configuration on the same sequence of draws return identical direct damage, DOT
\* damage, proc counts and active stack counts.
C20_SameDrawsSameOutput ==
    \A i \in 1..Len(runs) : \A j \in 1..Len(runs) :
        runs[i].draws = runs[j].draws => RunOutput(runs[i]) = RunOutput(runs[j])

\* C20 witness: the second run of a batch drew what the first drew over two shots or
\* more, DOT stacks were left on the target, and the two outputs are the same.
C20_Witness ==
    /\ sim_pc = "done"
    /\ Len(runs) >= 2
    /\ runs[1].draws = runs[2].draws
    /\ Len(runs[1].draws) >= 2
    /\ runs[1].result.active_dot_stacks # <<>>
    /\ RunOutput(runs[1]) = RunOutput(runs[2])

\* the base damage _simulate_single_hit hands to each proc of an element, in the order
\* of the calls of apply_status_proc
RECURSIVE ProcBaseDamages(_, _, _)
ProcBaseDamages(self, pellets, element) ==
    IF pellets = <<>> THEN <<>>
    ELSE [i \in 1..count_in(pellets[1].procs, element) |->
             pellet_base_damage(self, pellets[1].crit_level)]
         \o ProcBaseDamages(self, Tail(pellets), element)

\* the instances of a type the last operation appended
Appended(t) == SubSeq(InstancesNow(t), Len(InstancesBefore(t)) + 1, Len(InstancesNow(t)))

\* C23 as stated: the DotInstance inserted for a proc of an element that has a DOT
\* behavior has damage-per-tick = base_damage * (modifier value of the element + 1) *
\* faction multiplier, with no further factor.
C23_ProcDamageAsStated ==
    (sim_pc = "loop" /\ last.op = "fire") =>
        \A e \in DOMAIN DOT_CONFIG_MAP :
            LET handed == ProcBaseDamages(calculator, last.pellets, e)
            IN  /\ Len(Appended(e)) = Len(handed)
                /\ \A i \in 1..Len(handed) :
                      Appended(e)[i].damage_per_tick =
                          RProdSeq(<<handed[i],
                                     RAdd(get_element(calculator.final_buff.elements, e), One),
                                     get_faction(calculator)>>)

\* C23 amended: the DotInstance inserted for a proc of an element that has a DOT
\* behavior has damage-per-tick = base_damage * (modifier value of the element + 1) *
\* faction multiplier * the damage multiplier of the element's DOT configuration (0.35
\* for slash, 0.5 for heat, toxin, electricity and gas), where base_damage is the base
\* damage handed to the proc.
C23_ProcDamage ==
    (sim_pc = "loop" /\ last.op = "fire") =>
        \A e \in DOMAIN DOT_CONFIG_MAP :
            LET handed == ProcBaseDamages(calculator, last.pellets, e)
            IN  /\ Len(Appended(e)) = Len(handed)
                /\ \A i \in 1..Len(handed) :
                      Appended(e)[i].damage_per_tick =
                          RProdSeq(<<handed[i],
                                     RAdd(get_element(calculator.final_buff.elements, e), One),
                                     get_faction(calculator),
                                     DOT_CONFIG_MAP[e].damage_multiplier>>)

\* C23 witness: a critical shot put a heat instance on a target the bundle has a faction
\* bonus against, with a heat modifier in the bundle: base damage 2 * 1.5 * 2 = 6 was
\* handed to the proc, and the damage per tick is 6 * 2 * 1.5 * 0.5 = 9.
C23_Witness ==
    /\ sim_pc = "loop"
    /\ last.op = "fire"
    /\ RLt(One, get_faction(calculator))
    /\ RLt(Zero, get_element(calculator.final_buff.elements, "heat"))
    /\ last.pellets[1].crit_level = 1
    /\ Len(Appended("heat")) = 1
    /\ Appended("heat")[1].damage_per_tick = Rat(9, 1)

\* no roll of the run is random: critical chance, multishot and status chance have no
\* fractional part
CertainRolls(self) ==
    /\ RMod1(get_cc(self)) = Zero
    /\ RMod1(get_ms(self)) = Zero
    /\ RMod1(get_sc(self)) = Zero

\* C27: when critical chance, multishot and status chance have no fractional part, the
\* direct damage of one simulated shot equals calc_single_hit * multishot times the
\* boss-class non-crit penalty calc_direct_dps applies (1 for a non-boss target), so
\* after every shot the direct damage of the run is the number of shots times that
\* amount.
C27_ShotMatchesClosedForm ==
    (sim_pc \in {"loop", "done"} /\ CertainRolls(calculator)) =>
        total_direct_damage =
            RProdSeq(<<Rat(shots_fired, 1), calc_single_hit(calculator), get_ms(calculator),
                       NonCritPenalty(calculator)>>)

\* absolute value of a rational
RAbs(x) == IF RLt(x, Zero) THEN RSub(Zero, x) ELSE x

\* C21: the average direct DPS of a multi-run simulation converges, within 5%, to the
\* value of calc_direct_dps for the same weapon, modifiers and target.  Checked where no
\* roll is random and the weapon fires one shot per step of one second: every run then
\* returns the same direct DPS, so the average over any number of runs, 1000 or more
\* included, is the average of the batch made here.
C21_AverageMatchesFormula ==
    (/\ sim_pc = "done"
     /\ Len(runs) = sim_args.num_simulations
     /\ CertainRolls(calculator)
     /\ get_as(calculator) = One
     /\ sim_args.time_step = One) =>
        RLe(RAbs(RSub(direct_dps_avg, calc_direct_dps(calculator))),
            RMul(Rat(5, 100), calc_direct_dps(calculator)))

\* the natural number of a stripped limb sequence (small enough for an integer)
RECURSIVE LToNat(_)
LToNat(a) == IF a = <<>> THEN 0 ELSE a[1] + LimbBase * LToNat(Tail(a))

\* floor(x * r) for a float x >= 0 and a rational r > 0 of small terms, exactly
FloorTimes(x, r) ==
    IF x.sign = 0 THEN 0
    ELSE LET m == LMulSmall(x.mant, r.n, 0)
             scaled == IF x.exp >= 0 THEN LShl(m, x.exp) ELSE LShr(m, -x.exp)
         IN  LToNat(LStrip(LDivSmall(scaled, r.d).q))

\* the outer while body passes from its firing phase to tick_all
FiringPhaseEnds == sim_pc = "loop" /\ steps_done' = steps_done + 1

\* C28: in a run with attack rate > 0 the first shot is fired at clock 0; when the
\* firing phase of the step that starts at clock t ends, floor(t / interval) + 1
\* shots have been fired in total, interval = 1 / attack rate; no shot is fired
\* once the clock has reached the duration
C28_ShotsByClock ==
    [][(sim_pc = "loop" /\ RLt(Zero, get_as(calculator))) =>
         /\ (shots_fired = 0 /\ shots_fired' = 1) => time_elapsed = FZero
         /\ FiringPhaseEnds =>
               shots_fired = FloorTimes(time_elapsed, get_as(calculator)) + 1
         /\ shots_fired' # shots_fired => FLt(time_elapsed, duration_float)]_vars

(***************************************************************************)
(* Specification SpecDebuff: an EnemyStat with armor, and the calls that   *)
(* update its debuff, in any order: heat procs on its DotState;            *)
(* dot_state.tick_all; add_debuff of the heat armor-strip debuff;          *)
(* update_debuffs, called with a clock value one time step after the last  *)
(* one; _reset_simulation at the start of a run on this enemy.  `last` is  *)
(* the last call made; damage_dealt and prev_dots are not kept here.       *)
(***************************************************************************)
\* bounds: most steps of the loop, and most heat instances at a time
MaxSteps == 8
MaxHeat == 1

\* base_armor arguments of EnemyStat and the steps of the clock, in seconds
BaseArmors == {Rat(100, 1), Rat(3000, 1)}
ClockSteps == {Rat(1, 4), Rat(1, 2), One}
\* delta_time arguments of dot_state.tick_all, in seconds
DotDeltas == {Rat(3, 1)}

\* the EnemyStat the state holds
Enemy ==
    [base_armor |-> base_armor, current_armor |-> current_armor,
     active_debuffs |-> active_debuffs, active_dots |-> active_dots]

\* strip stage of the debuff on the enemy (0 when there is none)
Stage(debuffs) == IF debuffs = <<>> THEN 0 ELSE debuffs[1].strip_stage

DebuffInit ==
    /\ DotIdle
    /\ CalcIdle
    /\ sim_pc = "off"
    /\ sim_args \in [time_step : ClockSteps]
    /\ time_elapsed = NoValue
    /\ shot_timer = NoValue
    /\ shots_fired = NoValue
    /\ total_direct_damage = NoValue
    /\ total_dot_damage = NoValue
    /\ proc_counts = NoValue
    /\ procs_rolled = NoValue
    /\ steps_done = 0
    /\ draws = NoValue
    /\ sim_result = NoValue
    /\ runs = NoValue
    /\ current_time = FZero
    /\ base_armor \in {capped_armor(FOfRat(a)) : a \in BaseArmors}
    /\ current_armor = base_armor
    /\ active_debuffs = <<>>
    /\ heat_since = FZero
    /\ added_at = NoValue
    /\ stage_log = [up |-> NoValue, down |-> NoValue]

\* a heat proc: config.create_instance + dot_state.add_dot
HeatProc ==
    /\ TotalStacks(active_dots) < MaxHeat
    /\ LET config == DOT_CONFIG_MAP["heat"]
           inst == create_instance(config, One)
       IN  active_dots' = add_dot(active_dots, inst, config.behavior)
    /\ heat_since' = IF has_heat(active_dots) THEN heat_since ELSE current_time
    /\ last' = [op |-> "add_dot"]
    /\ UNCHANGED <<damage_dealt, prev_dots, calc_vars, sim_vars, current_time, base_armor,
                   current_armor, active_debuffs, added_at, stage_log>>

\* enemy_stat.add_debuff(HeatArmorStripDebuff(), current_time) on an enemy without it
AddDebuff ==
    /\ active_debuffs = <<>>
    /\ active_debuffs' = add_debuff(active_debuffs, HeatArmorStripDebuff, current_time)
    /\ added_at' = current_time
    /\ stage_log' = [up |-> NoValue, down |-> NoValue]
    /\ last' = [op |-> "add_debuff", debuff |-> HeatArmorStripDebuff]
    /\ UNCHANGED <<active_dots, damage_dealt, prev_dots, calc_vars, sim_vars,
                   current_time, base_armor, current_armor, heat_since>>

\* enemy_stat.dot_state.tick_all(delta_time); the clock is no argument of it
TickDots(delta_time) ==
    /\ active_dots' = tick_all_dots(active_dots, delta_time)
    /\ heat_since' = IF has_heat(active_dots)
                         /\ ~has_heat(tick_all_dots(active_dots, delta_time))
                      THEN current_time ELSE heat_since
    /\ last' = [op |-> "tick_all", delta_time |-> delta_time]
    /\ UNCHANGED <<damage_dealt, prev_dots, calc_vars, sim_vars, current_time, base_armor,
                   current_armor, active_debuffs, added_at, stage_log>>

\* DebuffManager.update_debuffs(enemy_stat, current_time), called with a clock value one
\* time step after the last one (simulate_combat itself never calls update_debuffs)
UpdateDebuffs ==
    /\ steps_done < MaxSteps
    /\ \E time \in {FAdd(current_time, FOfRat(sim_args.time_step))} :
         \E enemy \in {update_debuffs(Enemy, time)} :
            LET before == Stage(active_debuffs)
                after == Stage(enemy.active_debuffs)
            IN  /\ steps_done' = steps_done + 1
                /\ current_time' = time
                /\ current_armor' = enemy.current_armor
                /\ active_debuffs' = enemy.active_debuffs
                /\ added_at' = IF enemy.active_debuffs = <<>> THEN NoValue ELSE added_at
                /\ stage_log' = [up |-> IF after > before THEN time ELSE stage_log.up,
                                 down |-> IF after < before THEN time ELSE stage_log.down]
    /\ last' = [op |-> "update_debuffs"]
    /\ UNCHANGED <<active_dots, damage_dealt, prev_dots, calc_vars, base_armor, heat_since,
                   sim_pc, sim_args, sim_result, runs, time_elapsed, shot_timer, shots_fired,
                   total_direct_damage, total_dot_damage, proc_counts, procs_rolled, draws>>

\* DamageCalculator._reset_simulation at the start of a run on this enemy
ResetSimulation ==
    /\ active_dots' = reset_simulation(active_dots)
    /\ heat_since' = IF has_heat(active_dots) THEN current_time ELSE heat_since
    /\ last' = [op |-> "reset_simulation"]
    /\ UNCHANGED <<damage_dealt, prev_dots, calc_vars, sim_vars, current_time, base_armor,
                   current_armor, active_debuffs, added_at, stage_log>>

DebuffNext ==
    \/ HeatProc
    \/ AddDebuff
    \/ \E delta_time \in DotDeltas : TickDots(delta_time)
    \/ UpdateDebuffs
    \/ ResetSimulation

SpecDebuff == DebuffInit /\ [][DebuffNext]_vars

(***************************************************************************)
(* Claims about the armor-strip debuff (checked under SpecDebuff).         *)
(***************************************************************************)
\* seconds elapsed on the clock since the time `since`
Since(since) == FSub(current_time, since)

\* the armor the stage retains: base armor x (100%, 85%, 70%, 60%, 50%)
RetainedFraction ==
    <<FOne, FOfRat(Rat(85, 100)), FOfRat(Rat(70, 100)), FOfRat(Rat(60, 100)),
      FOfRat(Rat(50, 100))>>
RetainedArmor(stage) == FMul(base_armor, RetainedFraction[stage + 1])

\* C14: starting from a fresh heat armor-strip debuff, if heat DOTs are present
\* continuously while the debuff is updated at every clock step over a span of at least
\* 4 x the strip interval, the stage is 4 and the armor 50% of base; if the heat DOTs
\* are absent while the debuff is updated over a span of at least 4 x the recovery
\* interval, the stage is 0 and the armor equals the base armor.
C14_FullStripAndFullRecovery ==
    /\ (/\ active_debuffs # <<>>
        /\ has_heat(active_dots)
        /\ FLe(heat_since, added_at)
        /\ FLe(FMul(FOfRat(Rat(4, 1)), STRIP_INTERVAL), Since(added_at))) =>
          /\ Stage(active_debuffs) = 4
          /\ current_armor = RetainedArmor(4)
    /\ (/\ ~has_heat(active_dots)
        /\ FLe(FMul(FOfRat(Rat(4, 1)), RECOVERY_INTERVAL), Since(heat_since))) =>
          /\ Stage(active_debuffs) = 0
          /\ current_armor = base_armor

\* C15: while no heat DOT exists the stage goes down by exactly one per recovery
\* interval: a step lowers it by one at most, only without heat, not before the heat
\* DOTs have been absent for a full recovery interval, and not before a full recovery
\* interval has passed since the last decrement.
C15_RecoveryPacing ==
    [][Stage(active_debuffs') < Stage(active_debuffs) =>
          /\ Stage(active_debuffs') = Stage(active_debuffs) - 1
          /\ ~has_heat(active_dots')
          /\ FLe(RECOVERY_INTERVAL, FSub(current_time', heat_since'))
          /\ stage_log.down # NoValue =>
                FLe(RECOVERY_INTERVAL, FSub(current_time', stage_log.down))
      ]_vars

\* C16: while heat DOTs exist the stage goes up by exactly one per strip interval and
\* never beyond 4: a step raises it by one at most, only with heat, not before the
\* debuff has been on the enemy with heat present for a full strip interval (whatever
\* the clock value at which it was added), and not before a full strip interval has
\* passed since the last increment.
C16_StripPacing ==
    [][Stage(active_debuffs') > Stage(active_debuffs) =>
          /\ Stage(active_debuffs') = Stage(active_debuffs) + 1
          /\ Stage(active_debuffs') <= 4
          /\ has_heat(active_dots')
          /\ FLe(STRIP_INTERVAL, FSub(current_time', added_at))
          /\ FLe(STRIP_INTERVAL, FSub(current_time', heat_since))
          /\ stage_log.up # NoValue =>
                FLe(STRIP_INTERVAL, FSub(current_time', stage_log.up))
      ]_vars

\* C17: update_debuffs removes the heat armor-strip debuff only in a state where the
\* stage is 0 and no heat DOT instance exists; while the stage is above 0 or heat DOTs
\* exist the debuff stays on the enemy.
C17_RemovedOnlyRecoveredWithoutHeat ==
    [][(active_debuffs # <<>> /\ last'.op = "update_debuffs" /\ steps_done' # steps_done) =>
          IF Stage(active_debuffs) = 0 /\ ~has_heat(active_dots')
          THEN active_debuffs' = <<>>
          ELSE /\ Len(active_debuffs') = 1
               /\ active_debuffs'[1].debuff_type = HEAT_ARMOR_STRIP
      ]_vars

\* C17 witness: the debuff is still on the enemy, at stage 0 again, after the heat DOTs
\* went away while it was above stage 0 and it recovered.
C17_Witness ==
    /\ active_debuffs # <<>>
    /\ Stage(active_debuffs) = 0
    /\ ~has_heat(active_dots)
    /\ stage_log.up # NoValue
    /\ stage_log.down = current_time

\* C18: in every state reachable by debuff updates the stage is in 0..4 and the current
\* armor equals base armor x the stage's retained fraction (100%, 85%, 70%, 60%, 50%),
\* hence 0 <= current armor <= base armor.
C18_ArmorFollowsStage ==
    /\ Stage(active_debuffs) \in 0..4
    /\ current_armor = RetainedArmor(Stage(active_debuffs))
    /\ FLe(FZero, current_armor)
    /\ FLe(current_armor, base_armor)

\* C18 witness: the armor of an enemy capped at 2700 is back at 70% (stage 2) after it was
\* at 60% or less.
C18_Witness ==
    /\ Stage(active_debuffs) = 2
    /\ stage_log.down = current_time
    /\ base_armor = FOfRat(Rat(ARMOR_CAP, 1))
    /\ FLt(current_armor, FOfRat(Rat(1890, 1)))
    /\ FLt(FOfRat(Rat(1889, 1)), current_armor)

\* C19: in multi-run mode every run starts from an empty DotState and from unstripped
\* armor with no active debuff, whatever the previous run left behind: after
\* _reset_simulation no DOT is active, the armor is the base armor and no debuff is on
\* the enemy.
C19_RunStartsFresh ==
    [][(last'.op = "reset_simulation" /\ active_dots' # active_dots) =>
          /\ active_dots' = EmptyDots
          /\ current_armor' = base_armor'
          /\ active_debuffs' = <<>>
      ]_vars

(***************************************************************************)
(* Specification SpecTick: a DotState whose DotInstance fields are the     *)
(* floats they are in the program, ticked by DotState.tick_all with the    *)
(* same step again and again, no proc arriving.  sim_args holds the run's  *)
(* inputs (the DotState at the start and the step) and steps_done counts   *)
(* the tick_all calls; the variables of the other machines are idle.       *)
(***************************************************************************)
\* bound on the tick_all calls of a run
MaxTicks == 62

\* remaining durations at the start, in seconds: the base duration and less
Remainings == {One, Rat(2, 1), Rat(6, 1)}
\* steps that are exact as floats, and steps that are not
TickSteps == {Rat(1, 10), Rat(1, 5), Rat(1, 2), One}

\* a DotInstance with float fields
FloatInstance(dot_type, remaining) ==
    [dot_type           |-> dot_type,
     damage_per_tick    |-> FOfRat(One),
     remaining_duration |-> FOfRat(remaining),
     tick_rate          |-> FOfRat(One),
     total_duration     |-> FOfRat(remaining)]

\* DotInstance.is_active, on floats
is_active_float(inst) == FLt(FZero, inst.remaining_duration)

\* DotInstance.tick on floats: the instance after the tick
tick_instance_float(inst, delta_time) ==
    IF FLe(inst.remaining_duration, FZero) THEN inst
    ELSE [inst EXCEPT !.remaining_duration = FSub(inst.remaining_duration, delta_time)]

\* DotInstance.tick on floats: the damage it returns
tick_damage_float(inst, delta_time) ==
    IF FLe(inst.remaining_duration, FZero) THEN FZero
    ELSE FMul(FMul(inst.damage_per_tick, delta_time), inst.tick_rate)

\* total_damage = 0.0, then += damage for every instance
RECURSIVE FSumSeq(_)
FSumSeq(s) == IF s = <<>> THEN FZero
              ELSE FAdd(FSumSeq(SubSeq(s, 1, Len(s) - 1)), s[Len(s)])

\* DotState.tick_all on floats, per dot type: active_instances
active_instances_float(instances, delta_time) ==
    SelectSeq([i \in 1..Len(instances) |-> tick_instance_float(instances[i], delta_time)],
              is_active_float)

\* DotState.tick_all on floats: active_dots after the call and the returned dict
tick_all_float(dots, delta_time) ==
    LET active == [t \in DOMAIN dots |-> active_instances_float(dots[t], delta_time)]
        kept == {t \in DOMAIN dots : active[t] # <<>>}
    IN  [active_dots  |-> [t \in kept |-> active[t]],
         damage_dealt |-> [t \in kept |->
                             FSumSeq([i \in 1..Len(dots[t]) |->
                                        tick_damage_float(dots[t][i], delta_time)])]]

\* the DotStates at the start: a heat and a toxin instance
TickStates ==
    {("heat" :> <<FloatInstance("heat", r1)>>) @@ ("toxin" :> <<FloatInstance("toxin", r2)>>) :
        r1 \in Remainings, r2 \in Remainings}

TickInit ==
    /\ \E dots \in TickStates, delta_time \in TickSteps :
          /\ active_dots = dots
          /\ sim_args = [dot_state |-> dots, time_step |-> delta_time]
    /\ damage_dealt = EmptyDots
    /\ prev_dots = EmptyDots
    /\ last = [op |-> "init"]
    /\ CalcIdle
    /\ sim_pc = "off"
    /\ time_elapsed = NoValue
    /\ shot_timer = NoValue
    /\ shots_fired = NoValue
    /\ total_direct_damage = NoValue
    /\ total_dot_damage = NoValue
    /\ proc_counts = NoValue
    /\ procs_rolled = NoValue
    /\ steps_done = 0
    /\ draws = NoValue
    /\ sim_result = NoValue
    /\ runs = NoValue
    /\ DebuffIdle

\* DotState.tick_all(time_step)
TickAllFloat ==
    /\ steps_done < MaxTicks
    /\ \E ticked \in {tick_all_float(active_dots, FOfRat(sim_args.time_step))} :
          /\ active_dots' = ticked.active_dots
          /\ damage_dealt' = ticked.damage_dealt
    /\ prev_dots' = active_dots
    /\ last' = [op |-> "tick_all", delta_time |-> sim_args.time_step]
    /\ steps_done' = steps_done + 1
    /\ UNCHANGED <<calc_vars, debuff_vars, sim_pc, sim_args, sim_result, runs,
                   time_elapsed, shot_timer, shots_fired, total_direct_damage,
                   total_dot_damage, proc_counts, procs_rolled, draws>>

TickNext == TickAllFloat

SpecTick == TickInit /\ [][TickNext]_vars

(***************************************************************************)
(* Claims about the expiry of DOT instances (checked under SpecTick).      *)
(***************************************************************************)
\* y <= k * x for floats x, y > 0 and a natural k below the limb base, exactly
FLeTimes(y, k, x) ==
    LET e == IF x.exp < y.exp THEN x.exp ELSE y.exp
    IN  ~LLess(LStrip(LShl(LMulSmall(x.mant, k, 0), x.exp - e)), LShl(y.mant, y.exp - e))

\* ceil(R / d) for floats R, d > 0: the least k with R <= k * d
CeilDiv(R, d) ==
    CHOOSE k \in 1..MaxTicks : FLeTimes(R, k, d) /\ (k > 1 => ~FLeTimes(R, k - 1, d))

\* C29: if no new proc arrives, an instance whose remaining duration is R is ticked
\* exactly ceil(R / d) times by ticks of step d > 0 and is removed by the last of them:
\* after n ticks it is still in the DotState exactly if n < ceil(R / d)
C29_TickedCeilTimes ==
    sim_pc = "off" =>
        \A t \in DOMAIN sim_args.dot_state :
            (t \in DOMAIN active_dots) <=>
                steps_done < CeilDiv(sim_args.dot_state[t][1].remaining_duration,
                                     FOfRat(sim_args.time_step))

(***************************************************************************)
(* Specification SpecManage: the bookkeeping of active_debuffs.  On the    *)
(* enemy of SpecDebuff, add_debuff is called with a refresh-type or a      *)
(* stack-type debuff whether or not one is present, remove_debuff is       *)
(* called with a debuff of the list or with a new one, apply_armor_strip   *)
(* takes armor off, heat procs arrive, the DOTs tick and update_debuffs is *)
(* called.  `last` is the last call made.                                  *)
(***************************************************************************)
\* debuffs handed to add_debuff: HeatArmorStripDebuff() as constructed, and one whose
\* debuff_refresh_type was set to STACK
DebuffArgs ==
    {HeatArmorStripDebuff, [HeatArmorStripDebuff EXCEPT !.debuff_refresh_type = STACK]}

\* bound: most update_debuffs calls made on the enemy
MaxUpdates == 3

\* amounts handed to apply_armor_strip
StripAmounts == {FOfRat(Rat(60, 1))}

ManageInit ==
    /\ DotIdle
    /\ CalcIdle
    /\ sim_pc = "off"
    /\ sim_args = [time_step |-> Rat(1, 2)]
    /\ time_elapsed = NoValue
    /\ shot_timer = NoValue
    /\ shots_fired = NoValue
    /\ total_direct_damage = NoValue
    /\ total_dot_damage = NoValue
    /\ proc_counts = NoValue
    /\ procs_rolled = NoValue
    /\ steps_done = 0
    /\ draws = NoValue
    /\ sim_result = NoValue
    /\ runs = NoValue
    /\ current_time = FZero
    /\ base_armor = FOfRat(Rat(100, 1))
    /\ current_armor = base_armor
    /\ active_debuffs = <<>>
    /\ heat_since = FZero
    /\ added_at = NoValue
    /\ stage_log = [up |-> NoValue, down |-> NoValue]

\* enemy_stat.add_debuff(debuff, current_time)
AddAnyDebuff(debuff) ==
    /\ active_debuffs' = add_debuff(active_debuffs, debuff, current_time)
    /\ last' = [op |-> "add_debuff", debuff |-> debuff]
    /\ added_at' = IF active_debuffs = <<>> THEN current_time ELSE added_at
    /\ UNCHANGED <<active_dots, damage_dealt, prev_dots, calc_vars, sim_vars,
                   current_time, base_armor, current_armor, heat_since, stage_log>>

\* enemy_stat.remove_debuff(debuff)
RemoveDebuff(debuff) ==
    /\ active_debuffs' = remove_debuff(active_debuffs, debuff)
    /\ last' = [op |-> "remove_debuff", debuff |-> debuff]
    /\ added_at' = IF remove_debuff(active_debuffs, debuff) = <<>> THEN NoValue ELSE added_at
    /\ UNCHANGED <<active_dots, damage_dealt, prev_dots, calc_vars, sim_vars,
                   current_time, base_armor, current_armor, heat_since, stage_log>>

\* enemy_stat.apply_armor_strip(amount)
ApplyArmorStrip(amount) ==
    /\ current_armor' = apply_armor_strip(current_armor, amount)
    /\ last' = [op |-> "apply_armor_strip", amount |-> amount]
    /\ UNCHANGED <<active_dots, damage_dealt, prev_dots, calc_vars, sim_vars, current_time,
                   base_armor, active_debuffs, heat_since, added_at, stage_log>>

ManageNext ==
    \/ HeatProc
    \/ \E delta_time \in DotDeltas : TickDots(delta_time)
    \/ \E debuff \in DebuffArgs : AddAnyDebuff(debuff)
    \/ \E debuff \in DebuffArgs \cup {active_debuffs[i] : i \in 1..Len(active_debuffs)} :
          RemoveDebuff(debuff)
    \/ \E amount \in StripAmounts : ApplyArmorStrip(amount)
    \/ (steps_done < MaxUpdates /\ UpdateDebuffs)

SpecManage == ManageInit /\ [][ManageNext]_vars

(***************************************************************************)
(* Claims about the bookkeeping of debuffs (checked under SpecManage).     *)
(***************************************************************************)
\* at most one debuff of each debuff type
OnePerType(debuffs) ==
    \A i, j \in 1..Len(debuffs) : debuffs[i].debuff_type = debuffs[j].debuff_type => i = j

\* this step is an add_debuff call
AddStep ==
    /\ last'.op = "add_debuff"
    /\ steps_done' = steps_done
    /\ active_dots' = active_dots

\* C30: after any sequence of add_debuff, remove_debuff and update_debuffs calls,
\* active_debuffs holds at most one debuff of each debuff type; adding a debuff whose
\* type is already present appends nothing and, for a refresh-type debuff, only resets
\* the existing debuff's expiration time to current time + duration
C30_OneDebuffPerType ==
    [][/\ OnePerType(active_debuffs')
       /\ (AddStep /\ get_debuff_by_type(active_debuffs, last'.debuff.debuff_type) # 0) =>
             LET existing == get_debuff_by_type(active_debuffs, last'.debuff.debuff_type)
             IN  /\ Len(active_debuffs') = Len(active_debuffs)
                 /\ \A i \in 1..Len(active_debuffs) :
                       i # existing => active_debuffs'[i] = active_debuffs[i]
                 /\ active_debuffs'[existing] =
                       IF last'.debuff.debuff_refresh_type = REFRESH
                       THEN [active_debuffs[existing] EXCEPT
                               !.expiration_time =
                                   FAdd(current_time, active_debuffs[existing].duration)]
                       ELSE active_debuffs[existing]
                 /\ current_armor' = current_armor
      ]_vars

\* C30 witness: a refresh-type debuff was added at a clock > 0 to an enemy that holds
\* a debuff at a strip stage, and the one debuff on the enemy expires 6 s later
C30_Witness ==
    /\ last.op = "add_debuff"
    /\ last.debuff.debuff_refresh_type = REFRESH
    /\ Len(active_debuffs) = 1
    /\ active_debuffs[1].strip_stage > 0
    /\ FLt(FZero, current_time)
    /\ active_debuffs[1].expiration_time = FAdd(current_time, FOfRat(Rat(6, 1)))

====
